---------------------------- MODULE Spec2Model ----------------------------
(***************************************************************************)
(* Model of the portfolio parser worker (python-worker/src).               *)
(*                                                                         *)
(*   SpecMerge : processors/merger.py applied to bounded batches           *)
(*   Spec      : orchestrator.py, PortfolioParser.parse_job over a job     *)
(*   SpecCalls : the functions of processors/ and utils/ applied to        *)
(*               bounded arguments                                         *)
(*   SpecLive  : Spec with the fairness of a synchronous call              *)
(*   SpecWorker: queue/message_handler.py, the consumption loop of the     *)
(*               worker on a Redis stream                                  *)
(*                                                                         *)
(* Text is modelled by TLA+ strings, one character at a time, so that      *)
(* parsing, trimming, lower-casing and ordering are computed as the code   *)
(* computes them.                                                          *)
(***************************************************************************)
EXTENDS Integers, Sequences, FiniteSets, TLC

VARIABLES
    \* ---- merger harness (SpecMerge) ----
    mpc,          \* "args" | "merged" | "left" | "done"
    existing,     \* first argument of merge_transactions
    new,          \* second argument of merge_transactions
    third,        \* a third batch, for chained merges
    merged,       \* merge_transactions(existing, new)
    left,         \* merge_transactions(merged, third)
    right,        \* merge_transactions(existing, merge_transactions(new, third))
    \* ---- PortfolioParser (Spec) ----
    pc,           \* "init" | "files" | "done" | "raised"
    files,        \* the files argument of parse_job
    idx,          \* position in files of the file processed next
    purchases,    \* self.purchases
    sales,        \* self.sales
    dividends,    \* self.dividends
    taxes,        \* self.taxes
    transfers,    \* self.transfers
    errors,       \* self.errors
    result,       \* the ParsedJobResult parse_job returned
    \* ---- function harness (SpecCalls) ----
    call,         \* the function called and its arguments
    ret,          \* what the call returned
    \* ---- MessageQueueWorker (SpecWorker) ----
    stream,       \* the entries of the Redis stream, oldest first
    cursor,       \* how many entries the consumer group has been delivered
    batch,        \* positions of the xreadgroup reply that are not handled yet
    acked,        \* positions acknowledged by xack
    processed,    \* positions process_message was called on
    parsed,       \* positions whose files were given to parse_job
    written,      \* positions of the entries this worker added by xadd
    lost          \* positions whose publish_result or publish_error failed

mergeVars == <<mpc, existing, new, third, merged, left, right>>

parserVars == <<pc, files, idx, purchases, sales, dividends, taxes, transfers,
                errors, result>>

callVars == <<call, ret>>

workerVars == <<stream, cursor, batch, acked, processed, parsed, written, lost>>

vars == <<mergeVars, parserVars, callVars, workerVars>>

-----------------------------------------------------------------------------
(* Bounds *)

\* longest batch handed to merge_transactions in SpecMerge
MaxLen == 2

\* most files in a job
MaxFiles == 2

\* most words in the text of a type cell handed to categorize_transaction
MaxWords == 2

\* most columns of a table handed to find_transaction_type_column
MaxColumns == 2

-----------------------------------------------------------------------------
(* Python values *)

\* Python's None
None == "<None>"

Range(s) == {s[i] : i \in 1..Len(s)}

-----------------------------------------------------------------------------
(* Characters and strings *)

Char(s, i) == SubSeq(s, i, i)

Digits == {"0", "1", "2", "3", "4", "5", "6", "7", "8", "9"}

DigitVal(c) ==
    CASE c = "0" -> 0 [] c = "1" -> 1 [] c = "2" -> 2 [] c = "3" -> 3
      [] c = "4" -> 4 [] c = "5" -> 5 [] c = "6" -> 6 [] c = "7" -> 7
      [] c = "8" -> 8 [] c = "9" -> 9

\* code point of the characters a record's date can hold
CharOrd(c) ==
    CASE c = " " -> 32 [] c = "-" -> 45 [] c = "/" -> 47
      [] c \in Digits -> 48 + DigitVal(c)
      [] OTHER -> 127

\* Python's str < str: code point order, a proper prefix sorts first
RECURSIVE StrLessFrom(_, _, _)
StrLessFrom(a, b, i) ==
    IF i > Len(b) THEN FALSE
    ELSE IF i > Len(a) THEN TRUE
    ELSE IF CharOrd(Char(a, i)) < CharOrd(Char(b, i)) THEN TRUE
    ELSE IF CharOrd(Char(a, i)) > CharOrd(Char(b, i)) THEN FALSE
    ELSE StrLessFrom(a, b, i + 1)

\* the date texts the bounded inputs of this model can put into a record
KnownDates == {"2023-01-15", "2023-02-01", "2023-02-30", "2023-03-01"}

\* the order of the known date texts, computed once
StrLessMemo == [p \in KnownDates \X KnownDates |-> StrLessFrom(p[1], p[2], 1)]

StrLess(a, b) ==
    IF <<a, b>> \in DOMAIN StrLessMemo THEN StrLessMemo[<<a, b>>]
    ELSE StrLessFrom(a, b, 1)

\* int(text) for a text of decimal digits
RECURSIVE DigitsToInt(_)
DigitsToInt(s) ==
    IF Len(s) = 0 THEN 0
    ELSE 10 * DigitsToInt(SubSeq(s, 1, Len(s) - 1)) + DigitVal(Char(s, Len(s)))

AllDigits(s) == \A i \in 1..Len(s) : Char(s, i) \in Digits

DigitStr(n) == CASE n = 0 -> "0" [] n = 1 -> "1" [] n = 2 -> "2" [] n = 3 -> "3"
                 [] n = 4 -> "4" [] n = 5 -> "5" [] n = 6 -> "6" [] n = 7 -> "7"
                 [] n = 8 -> "8" [] n = 9 -> "9"

\* str(n) for n >= 0
RECURSIVE IntToStr(_)
IntToStr(n) == IF n < 10 THEN DigitStr(n) ELSE IntToStr(n \div 10) \o DigitStr(n % 10)

\* '%02d' % n
Pad2(n) == IF n < 10 THEN "0" \o DigitStr(n) ELSE IntToStr(n)

\* str.lower() of one character
LowerChar(c) ==
    CASE c = "A" -> "a" [] c = "B" -> "b" [] c = "C" -> "c" [] c = "D" -> "d"
      [] c = "E" -> "e" [] c = "F" -> "f" [] c = "G" -> "g" [] c = "H" -> "h"
      [] c = "I" -> "i" [] c = "J" -> "j" [] c = "K" -> "k" [] c = "L" -> "l"
      [] c = "M" -> "m" [] c = "N" -> "n" [] c = "O" -> "o" [] c = "P" -> "p"
      [] c = "Q" -> "q" [] c = "R" -> "r" [] c = "S" -> "s" [] c = "T" -> "t"
      [] c = "U" -> "u" [] c = "V" -> "v" [] c = "W" -> "w" [] c = "X" -> "x"
      [] c = "Y" -> "y" [] c = "Z" -> "z" [] OTHER -> c

\* str.lower()
RECURSIVE Lower(_)
Lower(s) ==
    IF Len(s) = 0 THEN ""
    ELSE Lower(SubSeq(s, 1, Len(s) - 1)) \o LowerChar(Char(s, Len(s)))

Whitespace == {" "}

\* str.strip()
RECURSIVE Strip(_)
Strip(s) ==
    IF Len(s) = 0 THEN ""
    ELSE IF Char(s, 1) \in Whitespace THEN Strip(SubSeq(s, 2, Len(s)))
    ELSE IF Char(s, Len(s)) \in Whitespace THEN Strip(SubSeq(s, 1, Len(s) - 1))
    ELSE s

\* k in s (substring containment)
Contains(s, k) ==
    \E i \in 1..(Len(s) - Len(k) + 1) : SubSeq(s, i, i + Len(k) - 1) = k

\* re.sub of the one-character class drop: s without the characters in drop
RECURSIVE RemoveChars(_, _)
RemoveChars(s, drop) ==
    IF Len(s) = 0 THEN ""
    ELSE RemoveChars(SubSeq(s, 1, Len(s) - 1), drop)
         \o (IF Char(s, Len(s)) \in drop THEN "" ELSE Char(s, Len(s)))

-----------------------------------------------------------------------------
(* utils/date_utils.py *)

IsLeap(y) == (y % 4 = 0 /\ y % 100 # 0) \/ y % 400 = 0

DaysInMonth(y, m) ==
    IF m = 2 THEN (IF IsLeap(y) THEN 29 ELSE 28)
    ELSE IF m \in {4, 6, 9, 11} THEN 30 ELSE 31

\* datetime(y, m, d) is constructible (MINYEAR = 1)
IsCalendarDate(y, m, d) ==
    /\ y >= 1
    /\ m \in 1..12
    /\ d \in 1..DaysInMonth(y, m)

\* re.match(r'^\d{4}-\d{2}-\d{2}$', s)
MatchesIsoPattern(s) ==
    /\ Len(s) = 10
    /\ \A i \in {1, 2, 3, 4, 6, 7, 9, 10} : Char(s, i) \in Digits
    /\ Char(s, 5) = "-"
    /\ Char(s, 8) = "-"

\* the fields strptime reads under %m and %d: one or two digits (the regexes
\* 1[0-2]|0[1-9]|[1-9] and 3[01]|[12]\d|0[1-9]|[1-9]| [1-9])
MonthField(p) ==
    /\ Len(p) \in {1, 2}
    /\ AllDigits(p)
    /\ DigitsToInt(p) \in 1..12

DayField(p) ==
    \/ /\ Len(p) \in {1, 2}
       /\ AllDigits(p)
       /\ DigitsToInt(p) \in 1..31
    \/ /\ Len(p) = 2
       /\ Char(p, 1) = " "
       /\ Char(p, 2) \in Digits \ {"0"}

YearField(p) == Len(p) = 4 /\ AllDigits(p)

FieldInt(p) == IF Char(p, 1) = " " THEN DigitVal(Char(p, 2)) ELSE DigitsToInt(p)

\* positions of the separator sep in s
SepPositions(s, sep) == {i \in 1..Len(s) : Char(s, i) = sep}

Min(S) == CHOOSE x \in S : \A y \in S : x <= y
Max(S) == CHOOSE x \in S : \A y \in S : x >= y

\* the date the year, month and day texts give: <<year, month, day>>, or None
\* where a field does not match or datetime(y, m, d) raises
DateOfFields(py, pm, pd) ==
    IF YearField(py) /\ MonthField(pm) /\ DayField(pd)
       /\ IsCalendarDate(DigitsToInt(py), FieldInt(pm), FieldInt(pd))
    THEN <<DigitsToInt(py), FieldInt(pm), FieldInt(pd)>>
    ELSE None

\* the three fields of s in the given order
OrderedFields(p1, p2, p3, order) ==
    DateOfFields(IF order = "YMD" THEN p1 ELSE p3,
                 IF order = "MDY" THEN p1 ELSE p2,
                 IF order = "YMD" THEN p3 ELSE IF order = "MDY" THEN p2 ELSE p1)

\* s cut at its two separators, at positions i < j
FieldsBetween(s, i, j, order) ==
    OrderedFields(SubSeq(s, 1, i - 1), SubSeq(s, i + 1, j - 1), SubSeq(s, j + 1, Len(s)),
                  order)

\* datetime.strptime(s, fmt) for a format of three numeric fields joined by sep,
\* in the order given ("YMD", "MDY" or "DMY"): <<year, month, day>>, or None
\* where strptime raises ValueError
StrptimeFields(s, sep, order) ==
    IF Cardinality(SepPositions(s, sep)) # 2 THEN None
    ELSE FieldsBetween(s, Min(SepPositions(s, sep)), Max(SepPositions(s, sep)), order)

\* datetime.strptime(s, '%Y-%m-%d')
StrptimeYmd(s) == StrptimeFields(s, "-", "YMD")

\* dt.strftime('%Y-%m-%d') (glibc: the year is not zero-padded)
Strftime(dt) == IntToStr(dt[1]) \o "-" \o Pad2(dt[2]) \o "-" \o Pad2(dt[3])

\* variant for sensitivity checks: %m-%d-%Y is tried before %d-%m-%Y
DateFormatsMonthFirst ==
    << <<"-", "YMD">>,
       <<"/", "MDY">>,
       <<"/", "DMY">>,
       <<"/", "YMD">>,
       <<"-", "MDY">>,
       <<"-", "DMY">> >>

\* the formats parse_date tries, in order, as <<separator, field order>>
DateFormats ==
    << <<"-", "YMD">>,      \* %Y-%m-%d
       <<"/", "MDY">>,      \* %m/%d/%Y
       <<"/", "DMY">>,      \* %d/%m/%Y
       <<"/", "YMD">>,      \* %Y/%m/%d
       <<"-", "DMY">>,      \* %d-%m-%Y
       <<"-", "MDY">> >>    \* %m-%d-%Y

\* the loop over the formats from the k-th on: the first that parses wins
RECURSIVE TryFormats(_, _)
TryFormats(s, k) ==
    IF k > Len(DateFormats) THEN None
    ELSE LET dt == StrptimeFields(Strip(s), DateFormats[k][1], DateFormats[k][2])
         IN IF dt # None THEN Strftime(dt) ELSE TryFormats(s, k + 1)

\* parse_date of a cell value that is None or a str
parse_date(date_value) ==
    IF date_value = None THEN None
    ELSE IF MatchesIsoPattern(date_value) THEN date_value
    ELSE TryFormats(date_value, 1)

\* strptime of the known date texts, computed once
StrptimeMemo == [s \in KnownDates |-> StrptimeYmd(s)]

Strptime(s) == IF s \in DOMAIN StrptimeMemo THEN StrptimeMemo[s] ELSE StrptimeYmd(s)

\* datetime < datetime on <<year, month, day>>
DateTimeLess(d1, d2) ==
    \/ d1[1] < d2[1]
    \/ d1[1] = d2[1] /\ d1[2] < d2[2]
    \/ d1[1] = d2[1] /\ d1[2] = d2[2] /\ d1[3] < d2[3]

\* the comparison compare_dates makes of the two strptime results; 0 in the
\* except branch (a strptime raised)
CompareDateTimes(d1, d2) ==
    IF d1 = None \/ d2 = None THEN 0
    ELSE IF DateTimeLess(d1, d2) THEN -1
    ELSE IF DateTimeLess(d2, d1) THEN 1
    ELSE 0

\* compare_dates: -1, 0, 1; 0 too when either text is no calendar date
compare_dates(date1, date2) == CompareDateTimes(Strptime(date1), Strptime(date2))

\* variant for sensitivity checks: only the texts that name a calendar day
\* count as valid dates
get_date_boundaries_calendar(dates) ==
    LET valid_dates == {dates[i] : i \in {k \in 1..Len(dates) :
                                             dates[k] # None /\ Strptime(dates[k]) # None}} IN
    IF valid_dates = {} THEN <<None, None>>
    ELSE <<CHOOSE d \in valid_dates : \A e \in valid_dates : ~StrLess(e, d),
           CHOOSE d \in valid_dates : \A e \in valid_dates : ~StrLess(d, e)>>

\* get_date_boundaries: (min, max) of the texts by str order, (None, None) if empty
get_date_boundaries(dates) ==
    LET valid_dates == {dates[i] : i \in {k \in 1..Len(dates) : dates[k] # None}} IN
    IF valid_dates = {} THEN <<None, None>>
    ELSE <<CHOOSE d \in valid_dates : \A e \in valid_dates : ~StrLess(e, d),
           CHOOSE d \in valid_dates : \A e \in valid_dates : ~StrLess(d, e)>>

-----------------------------------------------------------------------------
(* utils/number_utils.py *)

\* a float is written as its shortest decimal text, e.g. "10.0", "150.5", "-0.25"

\* s without leading zeros (at least one digit is kept)
RECURSIVE DropLeadingZeros(_)
DropLeadingZeros(s) ==
    IF Len(s) > 1 /\ Char(s, 1) = "0" THEN DropLeadingZeros(SubSeq(s, 2, Len(s))) ELSE s

\* s without trailing zeros (at least one digit is kept)
RECURSIVE DropTrailingZeros(_)
DropTrailingZeros(s) ==
    IF Len(s) > 1 /\ Char(s, Len(s)) = "0"
    THEN DropTrailingZeros(SubSeq(s, 1, Len(s) - 1)) ELSE s

\* the float text of sign, integer digits i and fraction digits f
FloatText(minus, i, f) ==
    (IF minus /\ ~(i = "0" /\ f = "0") THEN "-" ELSE "") \o i \o "." \o f

\* the float of the digits ip before and fp after the point
FloatOfParts(minus, ip, fp) ==
    IF ~AllDigits(ip) \/ ~AllDigits(fp) \/ Len(ip) + Len(fp) = 0 THEN None
    ELSE FloatText(minus,
                   DropLeadingZeros(IF ip = "" THEN "0" ELSE ip),
                   DropTrailingZeros(IF fp = "" THEN "0" ELSE fp))

\* body cut at its decimal point, at position dot
FloatCutAt(minus, body, dot) ==
    FloatOfParts(minus, SubSeq(body, 1, dot - 1), SubSeq(body, dot + 1, Len(body)))

\* the float of a text without sign
UnsignedFloat(minus, body) ==
    IF Cardinality(SepPositions(body, ".")) > 1 THEN None
    ELSE IF SepPositions(body, ".") = {} THEN FloatCutAt(minus, body, Len(body) + 1)
    ELSE FloatCutAt(minus, body, Min(SepPositions(body, ".")))

\* float(s) for a text in plain decimal notation: [sign] digits [. digits];
\* None for ValueError
FloatOf(s) ==
    IF Len(s) > 0 /\ Char(s, 1) \in {"+", "-"}
    THEN UnsignedFloat(Char(s, 1) = "-", SubSeq(s, 2, Len(s)))
    ELSE UnsignedFloat(FALSE, s)

\* parse_float of a cell value that is None or a str
parse_float(value) ==
    IF value = None THEN None
    ELSE LET cleaned == Strip(value) IN
         IF cleaned = "" THEN None
         ELSE FloatOf(RemoveChars(cleaned, {"$", ",", " "}))

-----------------------------------------------------------------------------
(* The table a loaded file gives (pandas DataFrame)                        *)
(*                                                                         *)
(*   columns : the labels in column order; a label is [text, isstr], isstr *)
(*             FALSE for a label that is not a str (a numeric header cell  *)
(*             of a spreadsheet)                                           *)
(*   rows    : the rows in file order; a row is the sequence of its cells  *)
(*             in column order; a cell is a str or NaN                     *)
(***************************************************************************)

\* pandas' missing value
NaN == "<NaN>"

\* pd.isna(value), pd.notna(value)
IsNa(value) == value = NaN
NotNa(value) == value # NaN

StrLabel(text) == [text |-> text, isstr |-> TRUE]
IntLabel(text) == [text |-> text, isstr |-> FALSE]

\* position (1-based) of the str label name in columns, 0 when absent
\* (name in row.index / list(row.index).index(name))
ColumnPosition(columns, name) ==
    IF \E i \in 1..Len(columns) : columns[i] = StrLabel(name)
    THEN Min({i \in 1..Len(columns) : columns[i] = StrLabel(name)})
    ELSE 0

\* str(value) of a cell
StrOf(value) == IF value = NaN THEN "nan" ELSE value

-----------------------------------------------------------------------------
(* processors/categorizer.py *)

PURCHASE_KEYWORDS == <<"Buy", "Purchase", "ExecutedBuy">>
SALE_KEYWORDS == <<"Sell", "Sale", "ExecutedSell">>
DIVIDEND_KEYWORDS == <<"Dividend">>
TAX_KEYWORDS == <<"Withholding", "Tax", "Foreign Tax">>
DEPOSIT_KEYWORDS == <<"Deposit", "Cash Transfer">>
FEE_KEYWORDS == <<"Cash Handling Fee", "Fee", "Handling">>

possible_names ==
    <<"Transaction Type", "Type", "Transaction", "Action",
      "TransactionType", "transaction_type", "type">>

\* what find_transaction_type_column gives when col.lower() meets a label
\* that is not a str: AttributeError leaves the function
AttributeError == "<AttributeError>"

\* variant for sensitivity checks: the table's columns are gone through in
\* their order and the first one that is a candidate is returned
find_transaction_type_column_table_order(columns) ==
    LET exact == {i \in 1..Len(columns) :
                     \E k \in 1..Len(possible_names) :
                         columns[i] = StrLabel(possible_names[k])}
        folded == {i \in 1..Len(columns) :
                     \E k \in 1..Len(possible_names) :
                         Lower(columns[i].text) = Lower(possible_names[k])}
    IN IF exact # {} THEN columns[Min(exact)].text
       ELSE IF \E i \in 1..Len(columns) : ~columns[i].isstr THEN AttributeError
       ELSE IF folded # {} THEN columns[Min(folded)].text
       ELSE None

\* find_transaction_type_column: a label text, None, or AttributeError
find_transaction_type_column(columns) ==
    LET exact == {k \in 1..Len(possible_names) :
                     ColumnPosition(columns, possible_names[k]) # 0}
        lowerOf(i) == Lower(columns[i].text)
        folded == {k \in 1..Len(possible_names) :
                     \E i \in 1..Len(columns) : lowerOf(i) = Lower(possible_names[k])}
    IN IF exact # {} THEN possible_names[Min(exact)]
       ELSE IF \E i \in 1..Len(columns) : ~columns[i].isstr THEN AttributeError
       ELSE IF folded # {}
            THEN columns[Min({i \in 1..Len(columns) :
                                 lowerOf(i) = Lower(possible_names[Min(folded)])})].text
            ELSE None

\* some keyword of the list is contained in the lower-cased text
AnyKeywordIn(keywords, text_lower) ==
    \E k \in 1..Len(keywords) : Contains(text_lower, Lower(keywords[k]))

\* variant for sensitivity checks: the fee keywords are looked for before the
\* tax and deposit keywords
CategoryOfFeeFirst(transaction_type_lower) ==
    IF AnyKeywordIn(PURCHASE_KEYWORDS, transaction_type_lower) THEN "purchase"
    ELSE IF AnyKeywordIn(SALE_KEYWORDS, transaction_type_lower) THEN "sale"
    ELSE IF AnyKeywordIn(DIVIDEND_KEYWORDS, transaction_type_lower) THEN "dividend"
    ELSE IF AnyKeywordIn(FEE_KEYWORDS, transaction_type_lower) THEN "fee"
    ELSE IF AnyKeywordIn(TAX_KEYWORDS, transaction_type_lower) THEN "tax"
    ELSE IF AnyKeywordIn(DEPOSIT_KEYWORDS, transaction_type_lower) THEN "deposit"
    ELSE None

\* the keyword checks of categorize_transaction, in priority order
CategoryOf(transaction_type_lower) ==
    IF AnyKeywordIn(PURCHASE_KEYWORDS, transaction_type_lower) THEN "purchase"
    ELSE IF AnyKeywordIn(SALE_KEYWORDS, transaction_type_lower) THEN "sale"
    ELSE IF AnyKeywordIn(DIVIDEND_KEYWORDS, transaction_type_lower) THEN "dividend"
    ELSE IF AnyKeywordIn(TAX_KEYWORDS, transaction_type_lower) THEN "tax"
    ELSE IF AnyKeywordIn(DEPOSIT_KEYWORDS, transaction_type_lower) THEN "deposit"
    ELSE IF AnyKeywordIn(FEE_KEYWORDS, transaction_type_lower) THEN "fee"
    ELSE None

\* variant for sensitivity checks: without a type column the category is
\* looked for in every cell of the row
categorize_transaction_any_cell(row, columns, transaction_type_col) ==
    IF transaction_type_col = None
    THEN IF \E i \in 1..Len(row) : CategoryOf(Lower(Strip(StrOf(row[i])))) # None
         THEN CategoryOf(Lower(Strip(StrOf(row[
                  Min({i \in 1..Len(row) :
                          CategoryOf(Lower(Strip(StrOf(row[i])))) # None})]))))
         ELSE None
    ELSE IF ColumnPosition(columns, transaction_type_col) = 0 THEN None
    ELSE CategoryOf(Lower(Strip(StrOf(row[ColumnPosition(columns, transaction_type_col)]))))

\* categorize_transaction
categorize_transaction(row, columns, transaction_type_col) ==
    IF transaction_type_col = None THEN None
    ELSE IF ColumnPosition(columns, transaction_type_col) = 0 THEN None
    ELSE CategoryOf(Lower(Strip(StrOf(row[ColumnPosition(columns, transaction_type_col)]))))

possible_symbol_cols ==
    <<"Company Symbol", "Symbol", "Company", "Ticker", "company_symbol", "symbol">>

\* get_company_symbol_for_dividend
get_company_symbol_for_dividend(row, columns, transaction_type_col) ==
    LET type_col_idx == ColumnPosition(columns, transaction_type_col)
        found == {k \in 1..Len(possible_symbol_cols) :
                     /\ ColumnPosition(columns, possible_symbol_cols[k]) # 0
                     /\ NotNa(row[ColumnPosition(columns, possible_symbol_cols[k])])}
    IN IF type_col_idx = 0 THEN None
       ELSE IF type_col_idx + 1 <= Len(columns) /\ NotNa(row[type_col_idx + 1])
            THEN Strip(StrOf(row[type_col_idx + 1]))
       ELSE IF found # {}
            THEN Strip(StrOf(row[ColumnPosition(columns, possible_symbol_cols[Min(found)])]))
       ELSE None

-----------------------------------------------------------------------------
(* processors/transformer.py *)

\* variant for sensitivity checks: column_index counts the columns from 1
get_cell_value_one_based(row, columns, column_index, default) ==
    IF column_index < 1 \/ column_index > Len(columns) THEN default
    ELSE IF IsNa(row[column_index]) THEN default
    ELSE row[column_index]

\* get_cell_value: the cell at the 0-based column_index, default when the
\* index is outside the table or the cell is NaN
get_cell_value(row, columns, column_index, default) ==
    IF column_index < 0 \/ column_index >= Len(columns) THEN default
    ELSE IF IsNa(row[column_index + 1]) THEN default
    ELSE row[column_index + 1]

\* str(get_cell_value(row, df, 6, "")).strip(), "USD" when that is empty
CurrencyOf(row, columns) ==
    LET currency == Strip(StrOf(get_cell_value(row, columns, 6, "")))
    IN IF currency = "" THEN "USD" ELSE currency

\* variant for sensitivity checks: column K is taken before column J
FirstAmountKFirst(j, k, f) == IF k # None THEN k ELSE IF j # None THEN j ELSE f

\* the amount of a dividend, tax or transfer: column J, else K, else F
FirstAmount(j, k, f) == IF j # None THEN j ELSE IF k # None THEN k ELSE f

AmountOf(row, columns) ==
    FirstAmount(parse_float(get_cell_value(row, columns, 9, None)),
                parse_float(get_cell_value(row, columns, 10, None)),
                parse_float(get_cell_value(row, columns, 5, None)))

\* the None a transform returns in place of a record
NoTransaction == [absent |-> TRUE]

\* variant for sensitivity checks: a Purchase is built without its quantity
PurchaseOfPartial(row, columns, date_str, company_symbol, quantity, unit_price) ==
    IF date_str = None THEN NoTransaction
    ELSE IF unit_price = None THEN NoTransaction
    ELSE [date |-> date_str,
          company_symbol |-> StrOf(company_symbol),
          quantity |-> quantity,
          unit_price |-> unit_price,
          currency |-> CurrencyOf(row, columns),
          transaction_fee |-> parse_float(get_cell_value(row, columns, 7, None)),
          proceeds_foreign |-> parse_float(get_cell_value(row, columns, 9, None)),
          proceeds_ils |-> parse_float(get_cell_value(row, columns, 10, None))]

\* the Purchase of the parsed cells, NoTransaction when a required one is None
PurchaseOf(row, columns, date_str, company_symbol, quantity, unit_price) ==
    IF date_str = None THEN NoTransaction
    ELSE IF quantity = None THEN NoTransaction
    ELSE IF unit_price = None THEN NoTransaction
    ELSE [date |-> date_str,
          company_symbol |-> StrOf(company_symbol),
          quantity |-> quantity,
          unit_price |-> unit_price,
          currency |-> CurrencyOf(row, columns),
          transaction_fee |-> parse_float(get_cell_value(row, columns, 7, None)),
          proceeds_foreign |-> parse_float(get_cell_value(row, columns, 9, None)),
          proceeds_ils |-> parse_float(get_cell_value(row, columns, 10, None))]

\* the fields r as an object of the dataclass cls of schemas/models.py; objects
\* of two classes are never equal
Instance(cls, r) ==
    IF r = NoTransaction THEN NoTransaction ELSE [class |-> cls] @@ r

\* transform_to_purchase: a Purchase, or NoTransaction
transform_to_purchase(row, columns) ==
    Instance("Purchase",
             PurchaseOf(row, columns,
                        parse_date(get_cell_value(row, columns, 0, None)),
                        get_cell_value(row, columns, 3, ""),
                        parse_float(get_cell_value(row, columns, 4, None)),
                        parse_float(get_cell_value(row, columns, 5, None))))

\* the Sale that takes every field of the Purchase
SaleOf(purchase) ==
    IF purchase = NoTransaction THEN NoTransaction
    ELSE [purchase EXCEPT !.class = "Sale"]

\* transform_to_sale: the Purchase mapping, copied field by field into a Sale
transform_to_sale(row, columns) == SaleOf(transform_to_purchase(row, columns))

\* the Dividend or Tax of the parsed cells, NoTransaction when the date or
\* the amount is None
AmountRecord(date_str, company_symbol, amount, currency) ==
    IF date_str = None THEN NoTransaction
    ELSE IF amount = None THEN NoTransaction
    ELSE [date |-> date_str, company_symbol |-> company_symbol,
          amount |-> amount, currency |-> currency]

\* transform_to_dividend: a Dividend, or NoTransaction
transform_to_dividend(row, columns, company_symbol) ==
    Instance("Dividend",
             AmountRecord(parse_date(get_cell_value(row, columns, 0, None)),
                          IF company_symbol = None
                          THEN Strip(StrOf(get_cell_value(row, columns, 3, "")))
                          ELSE company_symbol,
                          AmountOf(row, columns),
                          CurrencyOf(row, columns)))

\* transform_to_tax (the orchestrator passes no company_symbol): a Tax, or NoTransaction
transform_to_tax(row, columns) ==
    Instance("Tax",
             AmountRecord(parse_date(get_cell_value(row, columns, 0, None)),
                          IF Strip(StrOf(get_cell_value(row, columns, 3, ""))) = "" THEN None
                          ELSE Strip(StrOf(get_cell_value(row, columns, 3, ""))),
                          AmountOf(row, columns),
                          CurrencyOf(row, columns)))

\* the Transfer of the parsed cells, NoTransaction when the date or the
\* amount is None
TransferOf(date_str, transfer_type, amount, currency) ==
    IF date_str = None THEN NoTransaction
    ELSE IF amount = None THEN NoTransaction
    ELSE [date |-> date_str, type |-> transfer_type,
          amount |-> amount, currency |-> currency]

\* transform_to_transfer: a Transfer, or NoTransaction
transform_to_transfer(row, columns, transfer_type) ==
    Instance("Transfer",
             TransferOf(parse_date(get_cell_value(row, columns, 0, None)),
                        transfer_type,
                        AmountOf(row, columns),
                        CurrencyOf(row, columns)))

-----------------------------------------------------------------------------
(* processors/merger.py *)

get_transaction_date(transaction) == transaction.date

\* list.sort(key=...): stable insertion of x after every element not greater
RECURSIVE InsertByDate(_, _)
InsertByDate(sorted, x) ==
    IF sorted = <<>> THEN <<x>>
    ELSE IF StrLess(get_transaction_date(x), get_transaction_date(sorted[Len(sorted)]))
         THEN Append(InsertByDate(SubSeq(sorted, 1, Len(sorted) - 1), x),
                     sorted[Len(sorted)])
         ELSE Append(sorted, x)

RECURSIVE SortByDate(_)
SortByDate(s) ==
    IF s = <<>> THEN <<>>
    ELSE InsertByDate(SortByDate(SubSeq(s, 1, Len(s) - 1)), s[Len(s)])

_simple_merge(ex, nw) == SortByDate(ex \o nw)

\* variant for sensitivity checks: the two-pointer loop taking the existing
\* element only on a strictly smaller date (< 0 in place of <= 0)
RECURSIVE SortedMergeFromStrict(_, _, _, _, _)
SortedMergeFromStrict(ex, nw, i, j, res) ==
    IF i <= Len(ex) /\ j <= Len(nw)
    THEN IF compare_dates(get_transaction_date(ex[i]), get_transaction_date(nw[j])) < 0
         THEN SortedMergeFromStrict(ex, nw, i + 1, j, Append(res, ex[i]))
         ELSE SortedMergeFromStrict(ex, nw, i, j + 1, Append(res, nw[j]))
    ELSE res \o SubSeq(ex, i, Len(ex)) \o SubSeq(nw, j, Len(nw))

\* the while loop of _sorted_merge from positions i, j with res collected so
\* far, and the two extends after it
RECURSIVE SortedMergeFrom(_, _, _, _, _)
SortedMergeFrom(ex, nw, i, j, res) ==
    IF i <= Len(ex) /\ j <= Len(nw)
    THEN IF compare_dates(get_transaction_date(ex[i]), get_transaction_date(nw[j])) <= 0
         THEN SortedMergeFrom(ex, nw, i + 1, j, Append(res, ex[i]))
         ELSE SortedMergeFrom(ex, nw, i, j + 1, Append(res, nw[j]))
    ELSE res \o SubSeq(ex, i, Len(ex)) \o SubSeq(nw, j, Len(nw))

_sorted_merge(ex, nw) == SortedMergeFrom(ex, nw, 1, 1, <<>>)

\* variant for sensitivity checks: the boundaries ignored, new always appended
MergeByBoundariesAppend(ex, nw, eb, nb) == ex \o nw

\* variant for sensitivity checks: new is prepended also when its latest date
\* is the earliest date of existing (<= 0 in place of < 0)
MergeByBoundariesTiesPrepend(ex, nw, eb, nb) ==
    IF eb[1] = None \/ eb[2] = None \/ nb[1] = None \/ nb[2] = None
    THEN _simple_merge(ex, nw)
    ELSE IF compare_dates(nb[2], eb[1]) <= 0 THEN nw \o ex
    ELSE IF compare_dates(nb[1], eb[2]) > 0 THEN ex \o nw
    ELSE _sorted_merge(ex, nw)

\* the strategy choice of merge_transactions on the date boundaries eb of
\* existing and nb of new
MergeByBoundaries(ex, nw, eb, nb) ==
    IF eb[1] = None \/ eb[2] = None \/ nb[1] = None \/ nb[2] = None
    THEN _simple_merge(ex, nw)
    ELSE IF compare_dates(nb[2], eb[1]) < 0 THEN nw \o ex
    ELSE IF compare_dates(nb[1], eb[2]) > 0 THEN ex \o nw
    ELSE _sorted_merge(ex, nw)

\* variant for sensitivity checks: merge_transactions without its two
\* empty-input shortcuts
merge_transactions_no_shortcut(ex, nw) ==
    MergeByBoundaries(
        ex, nw,
        get_date_boundaries([i \in 1..Len(ex) |-> get_transaction_date(ex[i])]),
        get_date_boundaries([i \in 1..Len(nw) |-> get_transaction_date(nw[i])]))

merge_transactions(ex, nw) ==
    IF nw = <<>> THEN ex
    ELSE IF ex = <<>> THEN nw
    ELSE MergeByBoundaries(
             ex, nw,
             get_date_boundaries([i \in 1..Len(ex) |-> get_transaction_date(ex[i])]),
             get_date_boundaries([i \in 1..Len(nw) |-> get_transaction_date(nw[i])]))

-----------------------------------------------------------------------------
(* parsers/file_loader.py, as the orchestrator sees it *)

\* A file of a job: its name, the error load_file reports (None when the file
\* loads), and the table it loads to.

\* load_file: <<df, error>>, df None when the file does not load
load_file(file) ==
    IF file.load_error # None THEN [df |-> None, error |-> file.load_error]
    ELSE [df |-> "loaded", error |-> None]

\* validate_dataframe: <<is_valid, error>>
validate_dataframe(file) ==
    IF Len(file.rows) = 0 \/ Len(file.columns) = 0
    THEN [is_valid |-> FALSE, error |-> file.name \o ": File is empty (no rows)"]
    ELSE [is_valid |-> TRUE, error |-> None]

-----------------------------------------------------------------------------
(* orchestrator.py *)

\* repr of list(df.columns)
RECURSIVE ColumnsRepr(_)
ColumnsRepr(columns) ==
    IF Len(columns) = 0 THEN ""
    ELSE LET last == columns[Len(columns)]
             one  == IF last.isstr THEN "'" \o last.text \o "'" ELSE last.text
         IN IF Len(columns) = 1 THEN one
            ELSE ColumnsRepr(SubSeq(columns, 1, Len(columns) - 1)) \o ", " \o one

\* variant for sensitivity checks: the diagnostic names the row by its 0-based
\* index
RowErrorZeroBased(filename, row_idx, what) ==
    "File " \o filename \o ", row " \o IntToStr(row_idx)
        \o ": Failed to transform " \o what

\* f"File {filename}, row {idx + 1}: Failed to transform {what}"
RowError(filename, row_idx, what) ==
    "File " \o filename \o ", row " \o IntToStr(row_idx + 1)
        \o ": Failed to transform " \o what

\* the five per-file buckets and the diagnostics, before any row
EmptyBuckets(errs) ==
    [file_purchases |-> <<>>, file_sales |-> <<>>, file_dividends |-> <<>>,
     file_taxes |-> <<>>, file_transfers |-> <<>>, errors |-> errs]

\* variant for sensitivity checks: every record goes to the purchases bucket
CollectInPurchases(b, bucket, transaction, error) ==
    IF transaction # NoTransaction
    THEN [b EXCEPT !.file_purchases = Append(@, transaction)]
    ELSE [b EXCEPT !.errors = Append(@, error)]

\* if transaction: bucket.append(transaction) else: self.errors.append(error)
Collect(b, bucket, transaction, error) ==
    IF transaction # NoTransaction
    THEN [b EXCEPT ![bucket] = Append(@, transaction)]
    ELSE [b EXCEPT !.errors = Append(@, error)]

\* the if/elif chain of the row loop on the row's category
RowOfCategory(b, file, transaction_type_col, row_idx, row, category) ==
    CASE category = "purchase" ->
             Collect(b, "file_purchases", transform_to_purchase(row, file.columns),
                     RowError(file.name, row_idx, "purchase"))
      [] category = "sale" ->
             Collect(b, "file_sales", transform_to_sale(row, file.columns),
                     RowError(file.name, row_idx, "sale"))
      [] category = "dividend" ->
             Collect(b, "file_dividends",
                     transform_to_dividend(
                         row, file.columns,
                         get_company_symbol_for_dividend(row, file.columns,
                                                         transaction_type_col)),
                     RowError(file.name, row_idx, "dividend"))
      [] category = "tax" ->
             Collect(b, "file_taxes", transform_to_tax(row, file.columns),
                     RowError(file.name, row_idx, "tax"))
      [] category = "deposit" ->
             Collect(b, "file_transfers",
                     transform_to_transfer(row, file.columns, "deposit"),
                     RowError(file.name, row_idx, "deposit"))
      [] category = "fee" ->
             Collect(b, "file_transfers",
                     transform_to_transfer(row, file.columns, "cash_handling_fee"),
                     RowError(file.name, row_idx, "fee"))
      [] OTHER -> b

\* the body of the row loop for the row at 0-based index row_idx
ProcessRow(b, file, transaction_type_col, row_idx) ==
    RowOfCategory(b, file, transaction_type_col, row_idx, file.rows[row_idx + 1],
                  categorize_transaction(file.rows[row_idx + 1], file.columns,
                                         transaction_type_col))

\* for idx, row in df.iterrows(): rows 0 .. n-1 in order
RECURSIVE ProcessRows(_, _, _, _)
ProcessRows(b, file, transaction_type_col, n) ==
    IF n = 0 THEN b
    ELSE ProcessRow(ProcessRows(b, file, transaction_type_col, n - 1),
                    file, transaction_type_col, n - 1)

\* steps 3 and 4 of _process_file: each bucket b holds is sorted by date and
\* merged into the parser's accumulation
MergeBuckets(self, b) ==
    [path      |-> "merged",
     purchases |-> merge_transactions(self.purchases, SortByDate(b.file_purchases)),
     sales     |-> merge_transactions(self.sales, SortByDate(b.file_sales)),
     dividends |-> merge_transactions(self.dividends, SortByDate(b.file_dividends)),
     taxes     |-> merge_transactions(self.taxes, SortByDate(b.file_taxes)),
     transfers |-> merge_transactions(self.transfers, SortByDate(b.file_transfers)),
     errors    |-> b.errors]

\* variant for sensitivity checks: no diagnostic when the type column is not
\* found
ProcessTableSilent(self, file, transaction_type_col) ==
    IF transaction_type_col = AttributeError
    THEN [self EXCEPT !.path = "raised"]
    ELSE MergeBuckets(
             self,
             ProcessRows(EmptyBuckets(self.errors), file, transaction_type_col,
                         Len(file.rows)))

\* _process_file from the result of find_transaction_type_column on
ProcessTable(self, file, transaction_type_col) ==
    IF transaction_type_col = AttributeError
    THEN [self EXCEPT !.path = "raised"]
    ELSE MergeBuckets(
             self,
             ProcessRows(
                 EmptyBuckets(
                     IF transaction_type_col = None
                     THEN Append(self.errors,
                                 "File " \o file.name
                                   \o ": Could not find transaction type column. "
                                   \o "Available columns: ["
                                   \o ColumnsRepr(file.columns) \o "]")
                     ELSE self.errors),
                 file, transaction_type_col, Len(file.rows)))

\* variant for sensitivity checks: a file that fails to load is skipped
\* without a diagnostic
_process_file_silent_load(self, file) ==
    IF load_file(file).df = None
    THEN [self EXCEPT !.path = "load"]
    ELSE IF ~validate_dataframe(file).is_valid
    THEN [self EXCEPT !.path = "invalid",
                      !.errors = Append(@, "File " \o file.name \o " validation failed: "
                                             \o validate_dataframe(file).error)]
    ELSE ProcessTable(self, file, find_transaction_type_column(file.columns))

\* _process_file on the parser fields self: the fields after the call, with
\* path telling how the call ended ("load", "invalid", "raised", "merged")
_process_file(self, file) ==
    IF load_file(file).df = None
    THEN [self EXCEPT !.path = "load",
                      !.errors = Append(@, "File " \o file.name \o " failed to load: "
                                             \o load_file(file).error)]
    ELSE IF ~validate_dataframe(file).is_valid
    THEN [self EXCEPT !.path = "invalid",
                      !.errors = Append(@, "File " \o file.name \o " validation failed: "
                                             \o validate_dataframe(file).error)]
    ELSE ProcessTable(self, file, find_transaction_type_column(file.columns))

\* PortfolioParser.__init__
NewParser ==
    [path |-> "new", purchases |-> <<>>, sales |-> <<>>, dividends |-> <<>>,
     taxes |-> <<>>, transfers |-> <<>>, errors |-> <<>>]

\* the for loop of parse_job over fs from fresh fields; it ends at the first
\* file whose processing raises
RECURSIVE RunFiles(_, _)
RunFiles(self, fs) ==
    IF fs = <<>> \/ self.path = "raised" THEN self
    ELSE RunFiles(_process_file(self, Head(fs)), Tail(fs))

-----------------------------------------------------------------------------
(* The files a job is drawn from *)

\* the column layout of the test export: Date, Transaction Type, Company,
\* Symbol, Quantity, Price, Currency, Fee, Proceeds Foreign, Proceeds ILS
ExportColumns(type_label) ==
    <<StrLabel("Date"), type_label, StrLabel("Company"), StrLabel("Symbol"),
      StrLabel("Quantity"), StrLabel("Price"), StrLabel("Currency"), StrLabel("Fee"),
      StrLabel("Proceeds Foreign"), StrLabel("Proceeds ILS")>>

RowBuyFeb   == <<"2023-02-01", "Buy", "Apple", "AAPL", "10", "150.00", "USD", NaN, NaN, NaN>>
RowBuyJan   == <<"01/15/2023", "Buy", "Microsoft", "MSFT", "5", "300.00", "USD",
                 "1.00", "1500.00", "5500.00">>
RowBuyFeb2  == <<"2023-02-01", "Purchase", "Alphabet", "GOOG", "2", "$2,500.00", NaN,
                 NaN, NaN, NaN>>
RowSellMar  == <<"2023-03-01", "Sell", "Apple", "AAPL", "5", "160.00", "USD", NaN, NaN, NaN>>
RowSellJan  == <<"2023-01-15", "ExecutedSell", "Apple", "AAPL", "1", "140.00", "USD",
                 NaN, NaN, NaN>>
RowBuyOdd   == <<"2023-02-30", "Buy", "Tesla", "TSLA", "1", "200.00", "USD", NaN, NaN, NaN>>
RowDividend == <<"2023-02-01", "Dividend", "AAPL", NaN, NaN, "0.24", "USD", NaN, "2.40", NaN>>
RowTax      == <<"2023-02-01", "Withholding Tax", NaN, NaN, NaN, NaN, "USD", NaN, NaN, "0.60">>
RowDeposit  == <<"2023-01-15", "Deposit", NaN, NaN, NaN, "1000", NaN, NaN, NaN, NaN>>
RowFee      == <<"2023-03-01", "Cash Handling Fee", NaN, NaN, NaN, NaN, "USD", NaN, NaN, "3.50">>
RowInterest == <<"2023-01-15", "Interest", NaN, NaN, NaN, "0.10", "USD", NaN, NaN, NaN>>
RowBuyNoQty == <<"2023-01-15", "Buy", "Apple", "AAPL", NaN, "150.00", "USD", NaN, NaN, NaN>>
RowTaxNoDate == <<"n/a", "Tax", NaN, NaN, NaN, "0.75", "USD", NaN, NaN, NaN>>

File(name, load_error, columns, rows) ==
    [name |-> name, load_error |-> load_error, columns |-> columns, rows |-> rows]

FileUniverse ==
    { \* rows out of date order; a dividend
      File("jan_feb.csv", None, ExportColumns(StrLabel("Transaction Type")),
           <<RowBuyFeb, RowBuyJan, RowDividend>>),
      \* a purchase on a date jan_feb.csv has too; a sale; a tax
      File("feb_mar.csv", None, ExportColumns(StrLabel("Type")),
           <<RowBuyFeb2, RowSellMar, RowTax>>),
      \* a date text of the YYYY-MM-DD shape that names no calendar day; a tax
      \* row whose date cell holds no date
      File("odd.csv", None, ExportColumns(StrLabel("Transaction Type")),
           <<RowBuyOdd, RowSellJan, RowFee, RowTaxNoDate>>),
      \* a row of no kind, a purchase without quantity, a deposit
      File("mixed.csv", None, ExportColumns(StrLabel("Action")),
           <<RowInterest, RowBuyNoQty, RowDeposit>>),
      \* the file does not exist
      File("missing.csv", "File not found: missing.csv", <<>>, <<>>),
      \* the header line only
      File("empty.csv", None, ExportColumns(StrLabel("Transaction Type")), <<>>),
      \* no column names the transaction type
      File("nokind.csv", None, ExportColumns(StrLabel("Kind")), <<RowBuyFeb>>),
      \* a spreadsheet with a numeric header cell, the type column in upper case
      File("years.xlsx", None,
           <<StrLabel("Date"), StrLabel("TYPE"), IntLabel("2023")>>,
           <<<<"2023-01-15", "Buy", "10">>>>),
      \* the type column found case-insensitively; a row of no kind only
      File("interest.csv", None, ExportColumns(StrLabel("TYPE")), <<RowInterest>>) }

\* the files lists of at most n files
Jobs(n) == UNION {[1..k -> FileUniverse] : k \in 0..n}

-----------------------------------------------------------------------------
(* Spec: one PortfolioParser and one parse_job call *)

\* no ParsedJobResult yet
NoResult == [absent |-> TRUE]

ParserIdle ==
    /\ pc = "init"
    /\ files = <<>>
    /\ idx = 1
    /\ purchases = <<>>
    /\ sales = <<>>
    /\ dividends = <<>>
    /\ taxes = <<>>
    /\ transfers = <<>>
    /\ errors = <<>>
    /\ result = NoResult

MergeIdle ==
    /\ mpc = "args"
    /\ existing = <<>>
    /\ new = <<>>
    /\ third = <<>>
    /\ merged = <<>>
    /\ left = <<>>
    /\ right = <<>>

\* no call is made, nothing is returned
NoCall == [fn |-> "none"]

NotReturned == [returned |-> FALSE]

CallIdle ==
    /\ call = NoCall
    /\ ret = NotReturned

\* no worker: an empty stream, nothing delivered
WorkerIdle ==
    /\ stream = <<>>
    /\ cursor = 0
    /\ batch = <<>>
    /\ acked = {}
    /\ processed = {}
    /\ parsed = {}
    /\ written = {}
    /\ lost = {}

\* the parser's fields, as _process_file takes them
Self ==
    [path |-> "new", purchases |-> purchases, sales |-> sales, dividends |-> dividends,
     taxes |-> taxes, transfers |-> transfers, errors |-> errors]

Init == ParserIdle /\ MergeIdle /\ CallIdle /\ WorkerIdle

\* parse_job(directory, files) is called
ParseJob ==
    /\ pc = "init"
    /\ \E fs \in Jobs(MaxFiles) : files' = fs
    /\ pc' = "files"
    /\ UNCHANGED <<idx, purchases, sales, dividends, taxes, transfers, errors, result,
                   mergeVars, callVars, workerVars>>

\* the parser's fields become those of out, the outcome of a _process_file
\* call that ended the way path says; an exception ends the loop
StoreFields(out, path) ==
    /\ out.path = path
    /\ purchases' = out.purchases
    /\ sales' = out.sales
    /\ dividends' = out.dividends
    /\ taxes' = out.taxes
    /\ transfers' = out.transfers
    /\ errors' = out.errors
    /\ pc' = IF path = "raised" THEN "raised" ELSE "files"
    /\ idx' = IF path = "raised" THEN idx ELSE idx + 1

\* self._process_file(directory, filename) for the next file, ending the way
\* path says
ProcessFile(path) ==
    /\ pc = "files"
    /\ idx <= Len(files)
    /\ StoreFields(_process_file(Self, files[idx]), path)
    /\ UNCHANGED <<files, result, mergeVars, callVars, workerVars>>

\* load_file gave no table
FileLoadFails == ProcessFile("load")

\* validate_dataframe rejected the table
FileInvalid == ProcessFile("invalid")

\* find_transaction_type_column raised; the exception leaves parse_job
TypeColumnRaises == ProcessFile("raised")

\* the rows were sorted into the buckets and the buckets merged
FileMerged == ProcessFile("merged")

\* the loop is over: parse_job returns the ParsedJobResult
Return ==
    /\ pc = "files"
    /\ idx > Len(files)
    /\ result' = [purchases |-> purchases, sales |-> sales, dividends |-> dividends,
                  taxes |-> taxes, transfers |-> transfers, errors |-> errors]
    /\ pc' = "done"
    /\ UNCHANGED <<files, idx, purchases, sales, dividends, taxes, transfers, errors,
                   mergeVars, callVars, workerVars>>

Next ==
    \/ ParseJob
    \/ FileLoadFails
    \/ FileInvalid
    \/ TypeColumnRaises
    \/ FileMerged
    \/ Return

Spec == Init /\ [][Next]_vars

-----------------------------------------------------------------------------
(* SpecMerge: merge_transactions on bounded batches *)

\* the date texts of the batches: two calendar dates around one text that has
\* the YYYY-MM-DD shape and names no calendar day
BatchDates == {"2023-01-15", "2023-02-30", "2023-03-01"}

\* a Purchase; the symbol tells the batch and the position it came from
BatchRecord(date, tag, i) ==
    [class |-> "Purchase", date |-> date, company_symbol |-> tag \o DigitStr(i),
     quantity |-> 1, unit_price |-> 1, currency |-> "USD"]

DateSeqs(n) == UNION {[1..k -> BatchDates] : k \in 0..n}

Batches(tag, n) ==
    {[i \in 1..Len(ds) |-> BatchRecord(ds[i], tag, i)] : ds \in DateSeqs(n)}

InitMerge ==
    /\ mpc = "args"
    /\ existing \in Batches("E", MaxLen)
    /\ new \in Batches("N", MaxLen)
    /\ third \in Batches("T", MaxLen - 1)
    /\ merged = <<>>
    /\ left = <<>>
    /\ right = <<>>
    /\ ParserIdle
    /\ CallIdle
    /\ WorkerIdle

MergeCall ==
    /\ mpc = "args"
    /\ merged' = merge_transactions(existing, new)
    /\ mpc' = "merged"
    /\ UNCHANGED <<existing, new, third, left, right, parserVars, callVars, workerVars>>

ChainLeft ==
    /\ mpc = "merged"
    /\ left' = merge_transactions(merged, third)
    /\ mpc' = "left"
    /\ UNCHANGED <<existing, new, third, merged, right, parserVars, callVars, workerVars>>

ChainRight ==
    /\ mpc = "left"
    /\ right' = merge_transactions(existing, merge_transactions(new, third))
    /\ mpc' = "done"
    /\ UNCHANGED <<existing, new, third, merged, left, parserVars, callVars, workerVars>>

NextMerge == MergeCall \/ ChainLeft \/ ChainRight

SpecMerge == InitMerge /\ [][NextMerge]_vars

-----------------------------------------------------------------------------
(* SpecCalls: one call of a function of processors/ or utils/ *)

\* what a call returned
Returned(value) == [returned |-> TRUE, value |-> value]

\* the words the texts of a type cell are made of: keywords of every list in
\* several spellings, blanks and a word that is no keyword
TypeWords ==
    {"Buy", "PURCHASE", "sell", "Sale", "Dividend", "withholding", "Tax",
     "Deposit", "Cash Transfer", "Cash Handling Fee", "fee", "Interest", " "}

\* the texts of at most n words
RECURSIVE TypeTexts(_)
TypeTexts(n) ==
    IF n = 0 THEN {""}
    ELSE TypeTexts(n - 1) \cup {t \o w : t \in TypeTexts(n - 1), w \in TypeWords}

\* a table of a date column and a type column
TypeColumns == <<StrLabel("Date"), StrLabel("Type")>>

\* the calls of categorize_transaction: every text and a missing cell under
\* the type column, and a row with no column or another column named
CategorizeCalls ==
    {[fn |-> "categorize_transaction", row |-> <<"2023-01-15", cell>>,
      columns |-> TypeColumns, transaction_type_col |-> "Type"] :
        cell \in TypeTexts(MaxWords) \cup {NaN}}
    \cup
    {[fn |-> "categorize_transaction", row |-> <<"2023-01-15", "Buy">>,
      columns |-> TypeColumns, transaction_type_col |-> col] :
        col \in {None, "Kind"}}

\* a row of eleven filled cells, and two labellings of its columns
FullRow ==
    <<"2023-01-15", "Buy", "Apple Inc", "AAPL", "10", "150.50", "EUR", "1.00",
      "n/a", "1505.00", "5500.00">>

ExportLabels == ExportColumns(StrLabel("Transaction Type")) \o <<StrLabel("Notes")>>

LetterLabels ==
    <<StrLabel("A"), StrLabel("B"), StrLabel("C"), StrLabel("D"), StrLabel("E"),
      StrLabel("F"), StrLabel("G"), StrLabel("H"), StrLabel("I"), StrLabel("J"),
      StrLabel("K")>>

\* what a cell of FullRow is replaced by: an empty cell, blanks, a text that
\* is no number and no date
OddCells == {NaN, "  ", "abc"}

\* the first w cells of FullRow, as they are or with one cell replaced
RowsOfWidth(w) ==
    {SubSeq(FullRow, 1, w)}
    \cup {[SubSeq(FullRow, 1, w) EXCEPT ![p] = v] : p \in 1..w, v \in OddCells}

\* the calls of transform_to_purchase and transform_to_sale
PurchaseCalls ==
    {[fn |-> f, row |-> r, columns |-> SubSeq(labels, 1, Len(r))] :
        f \in {"transform_to_purchase", "transform_to_sale"},
        r \in UNION {RowsOfWidth(w) : w \in 1..Len(FullRow)},
        labels \in {ExportLabels, LetterLabels}}

\* the six columns of the tests on categorizing purchases and sales
SixColumns ==
    <<StrLabel("Date"), StrLabel("Transaction Type"), StrLabel("Symbol"),
      StrLabel("Quantity"), StrLabel("Price"), StrLabel("Currency")>>

\* rows of six filled cells: the two rows of the tests, a further purchase
\* and a dividend
SixRows ==
    {<<"2023-01-15", "Buy", "AAPL", "10", "150.50", "USD">>,
     <<"2023-02-01", "Sell", "AAPL", "5", "160.00", "USD">>,
     <<"01/20/2023", "Buy", "MSFT", "3", "300", "EUR">>,
     <<"2023-02-01", "Dividend", "AAPL", "5", "1.00", "USD">>}

\* most rows of the file of a parse_job call
MaxRows == 2

\* the calls of parse_job on a new parser with one file of the six columns
JobCalls ==
    {[fn |-> "parse_job", files |-> <<File("six.csv", None, SixColumns, rows)>>] :
        rows \in UNION {[1..n -> SixRows] : n \in 1..MaxRows}}

\* rows of a dividend, tax or transfer: the date cell filled or empty, and
\* each of the cells at the 0-based positions 5, 9 and 10 empty, no number,
\* or a number of its own
AmountRows ==
    {<<d, "Dividend", "Apple Inc", "AAPL", NaN, f, "USD", NaN, NaN, j, k>> :
        d \in {"2023-01-15", NaN},
        f \in {NaN, "abc", "5.50"},
        j \in {NaN, "abc", "9.25"},
        k \in {NaN, "abc", "10"}}

\* the table widths of the amount calls: position 5 the last, position 9 the
\* last, position 10 the last
AmountWidths == {6, 10, 11}

\* the calls of transform_to_dividend, transform_to_tax and
\* transform_to_transfer
AmountCalls ==
    {[fn |-> f, row |-> SubSeq(r, 1, w), columns |-> SubSeq(ExportLabels, 1, w)] :
        f \in {"transform_to_dividend", "transform_to_tax", "transform_to_transfer"},
        r \in AmountRows, w \in AmountWidths}

\* column labels: candidate spellings, spellings that differ from a candidate
\* in case only, a label that is no candidate, a label that is a number
TableLabels ==
    {StrLabel("Type"), StrLabel("Transaction Type"), StrLabel("TYPE"),
     StrLabel("type"), StrLabel("ACTION"), StrLabel("Date"), IntLabel("2023")}

\* the calls of find_transaction_type_column: the tables of at most MaxColumns
\* columns
FindColumnCalls ==
    {[fn |-> "find_transaction_type_column", columns |-> c] :
        c \in UNION {[1..n -> TableLabels] : n \in 0..MaxColumns}}

\* tables of a dividend row: a column after the type column that is or is
\* not a candidate symbol column, a candidate before the type column, no
\* column after the type column
SymbolTables ==
    {<<StrLabel("Date"), StrLabel("Transaction Type"), StrLabel("Company"),
       StrLabel("Symbol")>>,
     <<StrLabel("Date"), StrLabel("Transaction Type"), StrLabel("Notes"),
       StrLabel("Ticker")>>,
     <<StrLabel("Date"), StrLabel("Symbol"), StrLabel("Transaction Type")>>,
     <<StrLabel("Date"), StrLabel("Transaction Type")>>}

\* the cells of the columns that are neither the date nor the type: a
\* symbol, a symbol between blanks, an empty cell, blanks only
SymbolCells == {"AAPL", " MSFT ", NaN, "  "}

\* the rows of a table of SymbolTables
SymbolRows(columns) ==
    {r \in [1..Len(columns) -> SymbolCells \cup {"2023-01-15", "Dividend"}] :
        \A i \in 1..Len(columns) :
            IF columns[i] = StrLabel("Date") THEN r[i] = "2023-01-15"
            ELSE IF columns[i] = StrLabel("Transaction Type") THEN r[i] = "Dividend"
            ELSE r[i] \in SymbolCells}

\* the calls of get_company_symbol_for_dividend
SymbolCalls ==
    UNION {{[fn |-> "get_company_symbol_for_dividend", row |-> r, columns |-> c,
             transaction_type_col |-> "Transaction Type"] : r \in SymbolRows(c)} :
              c \in SymbolTables}

\* the texts of the first two fields of a date, the separators and the years
DateFieldTexts == {"01", "02", "1", "12", "13", "29", "31", "00"}

DateSeparators == {"/", "-"}

DateYears == {"2023", "2024"}

\* the calls of parse_date on two fields and a year joined by a separator; the
\* call keeps the parts the text was made of
DateCalls ==
    {[fn |-> "parse_date",
      date_value |-> a \o sep \o b \o sep \o y,
      first |-> a, second |-> b, year |-> y, sep |-> sep] :
        a \in DateFieldTexts, b \in DateFieldTexts, sep \in DateSeparators,
        y \in DateYears}

\* the calls of parse_job on a parser whose parse_job has returned before:
\* earlier the files list before, now the files list files, one file each
JobAgainCalls ==
    {[fn |-> "parse_job again", before |-> <<f>>, files |-> <<g>>] :
        f \in {x \in FileUniverse : RunFiles(NewParser, <<x>>).path # "raised"},
        g \in {x \in FileUniverse : RunFiles(NewParser, <<x>>).path # "raised"}}

\* the texts of the date cells of two rows
DateCellTexts ==
    {"2023-01-15", "01/15/2023", "2023-02-01", "2023-02-30", "02/30/2023",
     "15-03-2023", "2023-3-1"}

\* the calls of compare_dates on the dates of two records: the dates
\* parse_date returned for the date cells of their rows
CompareCalls ==
    {[fn |-> "compare_dates", date1 |-> parse_date(x), date2 |-> parse_date(y)] :
        x \in {t \in DateCellTexts : parse_date(t) # None},
        y \in {t \in DateCellTexts : parse_date(t) # None}}

Calls ==
    CategorizeCalls \cup PurchaseCalls \cup JobCalls \cup AmountCalls
        \cup FindColumnCalls \cup SymbolCalls \cup DateCalls \cup JobAgainCalls
        \cup CompareCalls

InitCalls ==
    /\ ParserIdle
    /\ MergeIdle
    /\ call \in Calls
    /\ ret = NotReturned
    /\ WorkerIdle

\* the call returns
ReturnOf(fn, value) ==
    /\ call.fn = fn
    /\ ret = NotReturned
    /\ ret' = Returned(value)
    /\ UNCHANGED <<call, mergeVars, parserVars, workerVars>>

CategorizeCall ==
    /\ call.fn = "categorize_transaction"
    /\ ReturnOf("categorize_transaction",
                categorize_transaction(call.row, call.columns, call.transaction_type_col))

PurchaseCall ==
    /\ call.fn = "transform_to_purchase"
    /\ ReturnOf("transform_to_purchase", transform_to_purchase(call.row, call.columns))

SaleCall ==
    /\ call.fn = "transform_to_sale"
    /\ ReturnOf("transform_to_sale", transform_to_sale(call.row, call.columns))

\* PortfolioParser(job_id).parse_job(directory, files)
JobCall ==
    /\ call.fn = "parse_job"
    /\ ReturnOf("parse_job", RunFiles(NewParser, call.files))

\* the orchestrator's call for a dividend row, with the symbol it looked up
DividendCall ==
    /\ call.fn = "transform_to_dividend"
    /\ ReturnOf("transform_to_dividend",
                transform_to_dividend(
                    call.row, call.columns,
                    get_company_symbol_for_dividend(call.row, call.columns,
                                                    "Transaction Type")))

TaxCall ==
    /\ call.fn = "transform_to_tax"
    /\ ReturnOf("transform_to_tax", transform_to_tax(call.row, call.columns))

TransferCall ==
    /\ call.fn = "transform_to_transfer"
    /\ \E transfer_type \in {"deposit", "cash_handling_fee"} :
          ReturnOf("transform_to_transfer",
                   transform_to_transfer(call.row, call.columns, transfer_type))

\* the call returns a label or None, or leaves with AttributeError
FindColumnCall ==
    /\ call.fn = "find_transaction_type_column"
    /\ ReturnOf("find_transaction_type_column",
                find_transaction_type_column(call.columns))

SymbolCall ==
    /\ call.fn = "get_company_symbol_for_dividend"
    /\ ReturnOf("get_company_symbol_for_dividend",
                get_company_symbol_for_dividend(call.row, call.columns,
                                                call.transaction_type_col))

ParseDateCall ==
    /\ call.fn = "parse_date"
    /\ ReturnOf("parse_date", parse_date(call.date_value))

\* parser.parse_job(directory, files) on the parser that has returned from
\* parse_job(directory, before): the fields are as that call left them
JobAgainCall ==
    /\ call.fn = "parse_job again"
    /\ ReturnOf("parse_job again",
                RunFiles([RunFiles(NewParser, call.before) EXCEPT !.path = "new"],
                         call.files))

CompareCall ==
    /\ call.fn = "compare_dates"
    /\ ReturnOf("compare_dates", compare_dates(call.date1, call.date2))

NextCalls ==
    \/ CategorizeCall
    \/ PurchaseCall
    \/ SaleCall
    \/ JobCall
    \/ DividendCall
    \/ TaxCall
    \/ TransferCall
    \/ FindColumnCall
    \/ SymbolCall
    \/ ParseDateCall
    \/ JobAgainCall
    \/ CompareCall

SpecCalls == InitCalls /\ [][NextCalls]_vars

-----------------------------------------------------------------------------
(* queue/message_handler.py                                                *)
(*                                                                         *)
(* An entry of the stream is the dict of its fields, all of them str (the  *)
(* client decodes responses). The timestamp field is left out: nothing in  *)
(* the worker reads it. A Python value that json.loads gives is tagged     *)
(* with its type.                                                          *)
(***************************************************************************)

PyList(items) == [type |-> "list", items |-> items]
PyInt(value) == [type |-> "int", value |-> value]
PyStr(text) == [type |-> "str", text |-> text]
PyNone == [type |-> "NoneType"]

\* dict.get(key, default)
Get(message, key, default) ==
    IF key \in DOMAIN message THEN message[key] ELSE default

JSONDecodeError == [type |-> "JSONDecodeError"]

\* the positions of the double quotes of text after its first character
QuotesAfterFirst(text) == {i \in 2..Len(text) : Char(text, i) = "\""}

\* the strings of the body of a JSON array: "a", "b", ... ; JSONDecodeError
\* for a body of another form
RECURSIVE JsonStrings(_)
JsonStringsAfter(first, rest) ==
    IF rest = "" THEN PyList(<<first>>)
    ELSE IF Len(rest) > 2 /\ SubSeq(rest, 1, 2) = ", "
              /\ JsonStrings(SubSeq(rest, 3, Len(rest))) # JSONDecodeError
    THEN PyList(<<first>> \o JsonStrings(SubSeq(rest, 3, Len(rest))).items)
    ELSE JSONDecodeError

JsonStrings(body) ==
    IF Len(body) < 2 \/ Char(body, 1) # "\"" \/ QuotesAfterFirst(body) = {}
    THEN JSONDecodeError
    ELSE JsonStringsAfter(SubSeq(body, 2, Min(QuotesAfterFirst(body)) - 1),
                          SubSeq(body, Min(QuotesAfterFirst(body)) + 1, Len(body)))

\* json.loads of a text: an array of strings, a number of decimal digits or
\* null; JSONDecodeError for any other text this model puts on the stream
json_loads(text) ==
    IF text = "null" THEN PyNone
    ELSE IF text # "" /\ AllDigits(text) THEN PyInt(DigitsToInt(text))
    ELSE IF text = "[]" THEN PyList(<<>>)
    ELSE IF Len(text) > 2 /\ Char(text, 1) = "[" /\ Char(text, Len(text)) = "]"
    THEN JsonStrings(SubSeq(text, 2, Len(text) - 1))
    ELSE JSONDecodeError

\* parse_message on the dict of an entry: the files field is replaced by what
\* json.loads gives for it and stays the str it is on JSONDecodeError (the
\* metadata field is treated alike; nothing reads it afterwards)
parse_message(message_data) ==
    [key \in DOMAIN message_data |->
        IF key = "files"
        THEN IF json_loads(message_data[key]) = JSONDecodeError
             THEN PyStr(message_data[key])
             ELSE json_loads(message_data[key])
        ELSE message_data[key]]

should_process_message(message) ==
    Lower(Get(message, "step", "")) \in {"parse", "parsing"}

\* not value, for a value json.loads gives
Falsy(value) ==
    CASE value.type = "list" -> value.items = <<>>
      [] value.type = "str" -> value.text = ""
      [] value.type = "int" -> value.value = 0
      [] OTHER -> TRUE

\* len(value) raises TypeError
HasNoLen(value) == value.type \in {"int", "NoneType"}

\* the file of the job directory that has the name: a file of no known name
\* does not exist
FileNamed(name) ==
    IF \E f \in FileUniverse : f.name = name
    THEN CHOOSE f \in FileUniverse : f.name = name
    ELSE File(name, "File not found: " \o name, <<>>, <<>>)

\* str(e) for the exception find_transaction_type_column raises
AttributeErrorText == "'int' object has no attribute 'lower'"

\* the JSON text of result.to_dict(), not spelled out
ResultJson == "<json.dumps(result)>"

\* the fields publish_result gives to xadd
ResultMessage(job_id) ==
    [jobId |-> job_id, step |-> "parsing_complete", status |-> "done",
     metadata |-> ResultJson]

\* the fields publish_error gives to xadd
ErrorMessage(job_id, error_message) ==
    [jobId |-> job_id, step |-> "parsing", status |-> "error",
     error |-> error_message]

\* PortfolioParser(job_id).parse_job(directory, files) for the list file_list
\* of file names
ParseOf(file_list) ==
    RunFiles(NewParser,
             [i \in 1..Len(file_list.items) |-> FileNamed(file_list.items[i])])

\* how process_message ends on the values it reads from the message
\*   "TypeError"     len(files) of the log line raised
\*   "no directory"  return False
\*   "bad files"     return False
\*   "parse raised"  parse_job raised: publish_error, return False
\*   "parsed"        parse_job returned: publish_result, return True
ProcessPath(directory, file_list) ==
    IF HasNoLen(file_list) THEN "TypeError"
    ELSE IF directory = "" THEN "no directory"
    ELSE IF Falsy(file_list) \/ file_list.type # "list" THEN "bad files"
    ELSE IF ParseOf(file_list).path = "raised" THEN "parse raised"
    ELSE "parsed"

process_message(message) ==
    ProcessPath(Get(message, "directory", ""), Get(message, "files", PyList(<<>>)))

-----------------------------------------------------------------------------
(* SpecWorker: consume_messages on a stream that holds job messages *)

\* how many job messages the producers have put on the stream
MaxMessages == 2

\* the count argument of xreadgroup
MESSAGE_COUNT == 10

JobDirectory == "/uploads"

\* the entries a producer can add for the job job_id: two well-formed jobs
\* (the second has a file whose processing raises, and its step in another
\* spelling), the malformed ones, and two that are not for this worker
JobEntries(job_id) ==
    {[jobId |-> job_id, step |-> "parse", directory |-> JobDirectory,
      files |-> "[\"jan_feb.csv\", \"missing.csv\"]"],
     [jobId |-> job_id, step |-> "Parsing", directory |-> JobDirectory,
      files |-> "[\"years.xlsx\"]"],
     [jobId |-> job_id, step |-> "parse", files |-> "[\"jan_feb.csv\"]"],
     [jobId |-> job_id, step |-> "parse", directory |-> JobDirectory],
     [jobId |-> job_id, step |-> "parse", directory |-> JobDirectory, files |-> "[]"],
     [jobId |-> job_id, step |-> "parse", directory |-> JobDirectory,
      files |-> "jan_feb.csv"],
     [jobId |-> job_id, step |-> "parse", directory |-> JobDirectory, files |-> "5"],
     [jobId |-> job_id, step |-> "upload", directory |-> JobDirectory,
      files |-> "[\"jan_feb.csv\"]"],
     [jobId |-> job_id, directory |-> JobDirectory, files |-> "[\"jan_feb.csv\"]"]}

JobId(i) == "job-" \o IntToStr(i)

\* the streams of at most n job messages, each for a job of its own
JobStreams(n) ==
    UNION {{s \in [1..k -> UNION {JobEntries(JobId(i)) : i \in 1..k}] :
               \A i \in 1..k : s[i].jobId = JobId(i)} : k \in 0..n}

InitWorker ==
    /\ stream \in JobStreams(MaxMessages)
    /\ cursor = 0
    /\ batch = <<>>
    /\ acked = {}
    /\ processed = {}
    /\ parsed = {}
    /\ written = {}
    /\ lost = {}
    /\ ParserIdle
    /\ MergeIdle
    /\ CallIdle

\* xreadgroup with '>': the entries not delivered yet, at most count of them
ReadGroup ==
    /\ batch = <<>>
    /\ cursor < Len(stream)
    /\ batch' = [i \in 1..Min({MESSAGE_COUNT, Len(stream) - cursor}) |-> cursor + i]
    /\ cursor' = cursor + Min({MESSAGE_COUNT, Len(stream) - cursor})
    /\ UNCHANGED <<stream, acked, processed, parsed, written, lost,
                   mergeVars, parserVars, callVars>>

\* the message of the entry the for loop is at
Current == parse_message(stream[Head(batch)])

\* should_process_message is False: continue
SkipMessage ==
    /\ batch # <<>>
    /\ ~should_process_message(Current)
    /\ batch' = Tail(batch)
    /\ UNCHANGED <<stream, cursor, acked, processed, parsed, written, lost,
                   mergeVars, parserVars, callVars>>

\* process_message is called on the entry and ends the way path says
Processing(path) ==
    /\ batch # <<>>
    /\ should_process_message(Current)
    /\ process_message(Current) = path
    /\ processed' = processed \cup {Head(batch)}

\* self.redis_client.xadd(fields) inside the try block of publish_result or
\* publish_error, for the entry at position p: the entry is added, or xadd
\* raises and the exception is logged
Publish(p, fields, xadd_ok) ==
    /\ stream' = IF xadd_ok THEN Append(stream, fields) ELSE stream
    /\ written' = IF xadd_ok THEN written \cup {Len(stream) + 1} ELSE written
    /\ lost' = IF xadd_ok THEN lost ELSE lost \cup {p}

\* len(files) raises TypeError in process_message, outside its try block: the
\* exception ends the for loop and is logged by the while loop
ProcessTypeError ==
    /\ Processing("TypeError")
    /\ batch' = <<>>
    /\ UNCHANGED <<stream, cursor, acked, parsed, written, lost,
                   mergeVars, parserVars, callVars>>

\* the validation of process_message fails: it logs and returns False, the
\* entry stays pending
ProcessMalformed ==
    /\ \/ Processing("no directory")
       \/ Processing("bad files")
    /\ batch' = Tail(batch)
    /\ UNCHANGED <<stream, cursor, acked, parsed, written, lost,
                   mergeVars, parserVars, callVars>>

\* parse_job raises: publish_error, return False, the entry stays pending
ProcessParseRaises ==
    /\ Processing("parse raised")
    /\ parsed' = parsed \cup {Head(batch)}
    /\ \E xadd_ok \in BOOLEAN :
          Publish(Head(batch),
                  ErrorMessage(Get(Current, "jobId", "unknown"), AttributeErrorText),
                  xadd_ok)
    /\ batch' = Tail(batch)
    /\ UNCHANGED <<cursor, acked, mergeVars, parserVars, callVars>>

\* parse_job returns: publish_result, return True, xack (which is logged when
\* it raises)
ProcessParsed ==
    /\ Processing("parsed")
    /\ parsed' = parsed \cup {Head(batch)}
    /\ \E xadd_ok \in BOOLEAN :
          Publish(Head(batch), ResultMessage(Get(Current, "jobId", "unknown")), xadd_ok)
    /\ \E xack_ok \in BOOLEAN :
          acked' = IF xack_ok THEN acked \cup {Head(batch)} ELSE acked
    /\ batch' = Tail(batch)
    /\ UNCHANGED <<cursor, mergeVars, parserVars, callVars>>

NextWorker ==
    \/ ReadGroup
    \/ SkipMessage
    \/ ProcessTypeError
    \/ ProcessMalformed
    \/ ProcessParseRaises
    \/ ProcessParsed

SpecWorker == InitWorker /\ [][NextWorker]_vars

-----------------------------------------------------------------------------
(* Properties of the merger *)

\* non-decreasing by date, in the order of the date texts
SortedByDate(s) ==
    \A i \in 1..Len(s) : \A j \in i..Len(s) :
        ~StrLess(get_transaction_date(s[j]), get_transaction_date(s[i]))

\* the elements of s that come from batch b, in the order they have in s
FromBatch(s, b) == SelectSeq(s, LAMBDA r : r \in Range(b))

\* s holds exactly the elements of a and of b, each batch in its own order
IsInterleave(s, a, b) ==
    /\ Len(s) = Len(a) + Len(b)
    /\ FromBatch(s, a) = a
    /\ FromBatch(s, b) = b

BatchMin(s) == get_date_boundaries([i \in 1..Len(s) |-> get_transaction_date(s[i])])[1]
BatchMax(s) == get_date_boundaries([i \in 1..Len(s) |-> get_transaction_date(s[i])])[2]

\* C1: for sorted batches existing and new, merge_transactions(existing, new)
\* is sorted non-decreasing by date and is an interleave of the two batches
\* (same elements, each batch's relative order kept).
C1_MergeSortedInterleave ==
    (mpc # "args" /\ SortedByDate(existing) /\ SortedByDate(new))
        => (SortedByDate(merged) /\ IsInterleave(merged, existing, new))

\* C2: in merge_transactions(existing, new) on sorted batches, an element of
\* existing never comes after an element of new that carries the same date.
C2_ExistingWinsTies ==
    (mpc # "args" /\ SortedByDate(existing) /\ SortedByDate(new))
        => \A i \in 1..Len(merged) : \A j \in 1..Len(merged) :
              (/\ merged[i] \in Range(new)
               /\ merged[j] \in Range(existing)
               /\ get_transaction_date(merged[i]) = get_transaction_date(merged[j]))
                  => j < i

\* a merge of two non-empty sorted batches in which some date is on both sides
C2_Witness ==
    /\ mpc = "merged"
    /\ SortedByDate(existing) /\ SortedByDate(new)
    /\ Len(existing) = 2 /\ Len(new) = 2
    /\ existing[2].date = new[1].date
    /\ existing[1].date # new[1].date
    /\ merged = <<existing[1], existing[2], new[1], new[2]>>

\* C5: chained merges of three sorted batches give the same sequence under
\* both groupings: merge(merge(A, B), C) = merge(A, merge(B, C)).
C5_MergeAssociative ==
    (mpc = "done" /\ SortedByDate(existing) /\ SortedByDate(new) /\ SortedByDate(third))
        => left = right

\* C6: the empty sequence is a two-sided identity: merge(A, []) = A and
\* merge([], B) = B, for every A and B (sorted or not).
C6_EmptyIsIdentity ==
    mpc # "args" => /\ (new = <<>> => merged = existing)
                    /\ (existing = <<>> => merged = new)

\* both identity laws have been applied to a non-empty batch
C6_Witness ==
    /\ mpc = "merged"
    /\ \/ new = <<>> /\ Len(existing) = 2 /\ merged = existing
       \/ existing = <<>> /\ Len(new) = 2 /\ merged = new

\* C7: for non-empty sorted batches with strictly disjoint date ranges the
\* result is the plain concatenation, earlier range first.
C7_DisjointConcatenates ==
    (mpc # "args" /\ existing # <<>> /\ new # <<>>
       /\ SortedByDate(existing) /\ SortedByDate(new))
        => /\ StrLess(BatchMax(new), BatchMin(existing)) => merged = new \o existing
           /\ StrLess(BatchMax(existing), BatchMin(new)) => merged = existing \o new

-----------------------------------------------------------------------------
(* Properties of a job *)

KindFields == {"purchases", "sales", "dividends", "taxes", "transfers"}

\* the five sequences of a and of b are the same, record for record
SameRecords(a, b) == \A k \in KindFields : a[k] = b[k]

\* the parser's five accumulations are those of r
AccumulationsAre(r) ==
    /\ purchases = r.purchases
    /\ sales = r.sales
    /\ dividends = r.dividends
    /\ taxes = r.taxes
    /\ transfers = r.transfers

\* the file fails to load or fails validation
FileFails(file) == load_file(file).df = None \/ ~validate_dataframe(file).is_valid

FileWorks(file) == ~FileFails(file)

\* what each file gives when it is the whole job, computed once
AloneMemo == [f \in FileUniverse |-> RunFiles(NewParser, <<f>>)]

\* what one file gives when it is the whole job
Alone(file) == AloneMemo[file]

\* the file gives no record of any kind
YieldsNoRecord(file) == \A k \in KindFields : Alone(file)[k] = <<>>

\* the reorderings of the files list fs
Reorderings(fs) ==
    {[i \in 1..Len(fs) |-> fs[p[i]]] :
        p \in {q \in [1..Len(fs) -> 1..Len(fs)] :
                  \A a, b \in 1..Len(fs) : q[a] = q[b] => a = b}}

\* C3: after every processed file each of the parser's five accumulations is
\* non-decreasing by date, and so is each sequence of the returned result.
C3_AccumulationsSorted ==
    /\ pc \in {"files", "done"} =>
          /\ SortedByDate(purchases)
          /\ SortedByDate(sales)
          /\ SortedByDate(dividends)
          /\ SortedByDate(taxes)
          /\ SortedByDate(transfers)
    /\ pc = "done" => \A k \in KindFields : SortedByDate(result[k])

CrossFileTie(f, g) ==
    \E k \in KindFields :
        \E r \in Range(Alone(f)[k]) : \E t \in Range(Alone(g)[k]) :
            compare_dates(get_transaction_date(r), get_transaction_date(t)) = 0

NoCrossFileTies(fs) ==
    \A i \in 1..Len(fs) : \A j \in 1..Len(fs) : i # j => ~CrossFileTie(fs[i], fs[j])

SkipsFailingFiles ==
    /\ AccumulationsAre(
           RunFiles(NewParser, SelectSeq(SubSeq(files, 1, idx - 1), FileWorks)))
    /\ pc = "done" =>
           SameRecords(result, RunFiles(NewParser, SelectSeq(files, FileWorks)))

\* C8: processing a file that fails to load or to validate appends a
\* diagnostic holding the file's name, leaves the five accumulations as they
\* were and goes on to the next file; at every point the accumulations, and at
\* the end the result, are those of the job without its failing files.
C8_FailingFileSkipped ==
    /\ [][(pc = "files" /\ idx <= Len(files) /\ FileFails(files[idx])) =>
             /\ Len(errors') = Len(errors) + 1
             /\ SubSeq(errors', 1, Len(errors)) = errors
             /\ Contains(errors'[Len(errors')], files[idx].name)
             /\ UNCHANGED <<purchases, sales, dividends, taxes, transfers>>
             /\ pc' = "files"
             /\ idx' = idx + 1
         ]_vars
    /\ []SkipsFailingFiles

\* a finished job in which a file that failed came before a file that gave
\* purchases
C8_Witness ==
    /\ pc = "done"
    /\ Len(files) = 2
    /\ FileFails(files[1])
    /\ Len(result.errors) = 1
    /\ result.purchases # <<>>
    /\ result.purchases = Alone(files[2]).purchases

\* C9: no failure is fatal to the job: no exception leaves parse_job.
C9_NoFailureIsFatal == pc # "raised"

RowFails(file, i) ==
    ProcessRow(EmptyBuckets(<<>>), file, find_transaction_type_column(file.columns),
               i - 1).errors # <<>>

\* the file is one the row loop or the steps before it report on
Diagnosed(file) ==
    \/ FileFails(file)
    \/ find_transaction_type_column(file.columns) = None
    \/ \E i \in 1..Len(file.rows) : RowFails(file, i)

-----------------------------------------------------------------------------
(* Properties of the row loop *)

\* the category of each row of each file, computed once
KindMemo ==
    [f \in FileUniverse |->
        [i \in 1..Len(f.rows) |->
            categorize_transaction(f.rows[i], f.columns,
                                   find_transaction_type_column(f.columns))]]

\* the category of the row at 1-based position i of the file
KindOfRow(file, i) == KindMemo[file][i]

\* what the transform of the row's category gives for the row
TransformOfKind(file, row, kind) ==
    CASE kind = "purchase" -> transform_to_purchase(row, file.columns)
      [] kind = "sale" -> transform_to_sale(row, file.columns)
      [] kind = "dividend" ->
             transform_to_dividend(
                 row, file.columns,
                 get_company_symbol_for_dividend(
                     row, file.columns, find_transaction_type_column(file.columns)))
      [] kind = "tax" -> transform_to_tax(row, file.columns)
      [] kind = "deposit" -> transform_to_transfer(row, file.columns, "deposit")
      [] kind = "fee" -> transform_to_transfer(row, file.columns, "cash_handling_fee")
      [] OTHER -> NoTransaction

\* what the transform gives for each row of each file, computed once
TransformMemo ==
    [f \in FileUniverse |->
        [i \in 1..Len(f.rows) |-> TransformOfKind(f, f.rows[i], KindOfRow(f, i))]]

TransformOfRow(file, i) == TransformMemo[file][i]

\* the row is categorized to a kind and its transform returns none
RowDropped(file, i) ==
    KindOfRow(file, i) # None /\ TransformOfRow(file, i) = NoTransaction

\* the row is categorized to a kind and its transform returns a record
RowKept(file, i) ==
    KindOfRow(file, i) # None /\ TransformOfRow(file, i) # NoTransaction

\* the accumulation the records of a kind go to
FieldOfKind(kind) ==
    CASE kind = "purchase" -> "purchases"
      [] kind = "sale" -> "sales"
      [] kind = "dividend" -> "dividends"
      [] kind = "tax" -> "taxes"
      [] OTHER -> "transfers"

\* the 1-based positions of the file's dropped rows, in row order
DroppedRows(file) ==
    SelectSeq([i \in 1..Len(file.rows) |-> i], LAMBDA i : RowDropped(file, i))

\* the records the kept rows of the file give for the accumulation field k
KeptRecords(file, k) ==
    {TransformOfRow(file, i) :
        i \in {j \in 1..Len(file.rows) :
                  RowKept(file, j) /\ FieldOfKind(KindOfRow(file, j)) = k}}

\* the last n diagnostics of errs are those of the dropped rows, one each and
\* in row order, each holding the file's name and the row's 1-based number
RowDiagnostics(errs, file, dropped) ==
    /\ Len(errs) >= Len(dropped)
    /\ \A k \in 1..Len(dropped) :
          /\ Contains(errs[Len(errs) - Len(dropped) + k], file.name)
          /\ Contains(errs[Len(errs) - Len(dropped) + k],
                      "row " \o IntToStr(dropped[k]) \o ":")

\* the accumulations after hold the records before and the kept rows' records,
\* and nothing else
OnlyKeptAdded(before, after, file) ==
    \A k \in KindFields :
        /\ Range(after[k]) = Range(before[k]) \cup KeptRecords(file, k)
        /\ Len(after[k]) =
              Len(before[k])
                + Cardinality({j \in 1..Len(file.rows) :
                                  RowKept(file, j) /\ FieldOfKind(KindOfRow(file, j)) = k})

\* C11: when the next file loads, validates and has its rows gone through,
\* every row that is categorized to a kind and whose transform returns none
\* appends exactly one diagnostic holding the file's name and the row's
\* 1-based number and adds no record, and every other row of the file, the
\* later ones included, is still categorized and transformed: its record is
\* in the accumulation of its kind.
C11_DroppedRowReported ==
    [][(/\ pc = "files"
        /\ idx <= Len(files)
        /\ FileWorks(files[idx])
        /\ find_transaction_type_column(files[idx].columns) # AttributeError) =>
          /\ Len(errors') =
                Len(errors) + Len(DroppedRows(files[idx]))
                  + (IF find_transaction_type_column(files[idx].columns) = None
                     THEN 1 ELSE 0)
          /\ SubSeq(errors', 1, Len(errors)) = errors
          /\ RowDiagnostics(errors', files[idx], DroppedRows(files[idx]))
          /\ OnlyKeptAdded(
                 Self,
                 [purchases |-> purchases', sales |-> sales', dividends |-> dividends',
                  taxes |-> taxes', transfers |-> transfers'],
                 files[idx])
      ]_vars

\* a finished job of one file in which a row was dropped and a later row of
\* the same file gave a record
C11_Witness ==
    /\ pc = "done"
    /\ Len(files) = 1
    /\ \E i \in 1..Len(files[1].rows) : \E j \in 1..Len(files[1].rows) :
          /\ i < j
          /\ RowDropped(files[1], i)
          /\ RowKept(files[1], j)
          /\ TransformOfRow(files[1], j) \in Range(result[FieldOfKind(KindOfRow(files[1], j))])
    /\ Len(result.errors) = 1
    /\ Contains(result.errors[1], "row 2:")

\* C12: when the next file loads and validates and has no type column, one
\* diagnostic holding the file's name is appended and nothing else: every row
\* of the file categorizes to none, the five accumulations stay as they were,
\* and the job goes on to the next file.
C12_NoTypeColumnContinues ==
    [][(/\ pc = "files"
        /\ idx <= Len(files)
        /\ FileWorks(files[idx])
        /\ find_transaction_type_column(files[idx].columns) = None) =>
          /\ \A i \in 1..Len(files[idx].rows) : KindOfRow(files[idx], i) = None
          /\ Len(errors') = Len(errors) + 1
          /\ SubSeq(errors', 1, Len(errors)) = errors
          /\ Contains(errors'[Len(errors')], files[idx].name)
          /\ Contains(errors'[Len(errors')], "Could not find transaction type column")
          /\ UNCHANGED <<purchases, sales, dividends, taxes, transfers>>
          /\ pc' = "files"
          /\ idx' = idx + 1
      ]_vars

\* a finished job in which a file with rows and without a type column came
\* before a file that gave purchases
C12_Witness ==
    /\ pc = "done"
    /\ Len(files) = 2
    /\ FileWorks(files[1])
    /\ files[1].rows # <<>>
    /\ find_transaction_type_column(files[1].columns) = None
    /\ Len(result.errors) = 1
    /\ Contains(result.errors[1], files[1].name)
    /\ result.purchases # <<>>
    /\ SameRecords(result, Alone(files[2]))

\* the record has its date and the required numbers of its kind
Complete(r, numbers) == r.date # None /\ \A f \in numbers : r[f] # None

\* every record of the five sequences of a has its required fields
AllComplete(a) ==
    /\ \A r \in Range(a.purchases) \cup Range(a.sales) :
          Complete(r, {"quantity", "unit_price"})
    /\ \A r \in Range(a.dividends) \cup Range(a.taxes) \cup Range(a.transfers) :
          Complete(r, {"amount"})

\* the row, of the given kind, lacks a required field of the kind's record:
\* the date, or the quantity or unit price of a purchase or sale, or an
\* amount at every position a dividend, tax or transfer takes it from
LacksRequired(row, columns, kind) ==
    \/ parse_date(get_cell_value(row, columns, 0, None)) = None
    \/ /\ kind \in {"purchase", "sale"}
       /\ \/ parse_float(get_cell_value(row, columns, 4, None)) = None
          \/ parse_float(get_cell_value(row, columns, 5, None)) = None
    \/ /\ kind \notin {"purchase", "sale"}
       /\ \A p \in {9, 10, 5} : parse_float(get_cell_value(row, columns, p, None)) = None

\* the per-file buckets of each file after the row loop, computed once
BucketsMemo ==
    [f \in FileUniverse |->
        ProcessRows(EmptyBuckets(<<>>), f, find_transaction_type_column(f.columns),
                    Len(f.rows))]

\* the per-file buckets of the file after the row loop
BucketsOf(file) == BucketsMemo[file]

\* the buckets b of a file hold complete records only, one for each
\* categorized row that lacks nothing and none for a row that lacks a
\* required field
BucketsCompleteOf(b, file) ==
    /\ AllComplete([purchases |-> b.file_purchases, sales |-> b.file_sales,
                    dividends |-> b.file_dividends, taxes |-> b.file_taxes,
                    transfers |-> b.file_transfers])
    /\ Len(b.file_purchases) + Len(b.file_sales) + Len(b.file_dividends)
         + Len(b.file_taxes) + Len(b.file_transfers)
       = Cardinality({i \in 1..Len(file.rows) :
                         /\ KindOfRow(file, i) # None
                         /\ ~LacksRequired(file.rows[i], file.columns, KindOfRow(file, i))})

BucketsComplete(file) == BucketsCompleteOf(BucketsOf(file), file)

\* C14: every record of a per-file bucket, of an accumulation and of the
\* returned result has a date and the required numbers of its kind (quantity
\* and unit_price of a Purchase or Sale, amount of a Dividend, Tax or
\* Transfer), and a row that lacks one of them gives no record at all.
C14_RecordsComplete ==
    /\ AllComplete(Self)
    /\ pc = "done" => AllComplete(result)
    /\ \A i \in 1..Len(files) :
          (i < idx /\ FileWorks(files[i])) => BucketsComplete(files[i])

\* a finished job of one file with a purchase row that has no quantity: the
\* result has no purchase and has the record of another row
C14_Witness ==
    /\ pc = "done"
    /\ Len(files) = 1
    /\ \E i \in 1..Len(files[1].rows) :
          /\ KindOfRow(files[1], i) = "purchase"
          /\ parse_float(get_cell_value(files[1].rows[i], files[1].columns, 4, None)) = None
          /\ parse_float(get_cell_value(files[1].rows[i], files[1].columns, 5, None)) # None
    /\ result.purchases = <<>>
    /\ \E k \in KindFields : result[k] # <<>>
    /\ AllComplete(result)

-----------------------------------------------------------------------------
(* Properties of the functions *)

\* the call of fn has returned
Called(fn) == call.fn = fn /\ ret.returned

\* the keyword lists with their kinds, in priority order
KeywordLists ==
    <<[kind |-> "purchase", keywords |-> PURCHASE_KEYWORDS],
      [kind |-> "sale", keywords |-> SALE_KEYWORDS],
      [kind |-> "dividend", keywords |-> DIVIDEND_KEYWORDS],
      [kind |-> "tax", keywords |-> TAX_KEYWORDS],
      [kind |-> "deposit", keywords |-> DEPOSIT_KEYWORDS],
      [kind |-> "fee", keywords |-> FEE_KEYWORDS]>>

\* the text has, at some place, the letters of the keyword in any case
ContainsAnyCase(text, keyword) ==
    \E i \in 1..(Len(text) - Len(keyword) + 1) :
        \A j \in 1..Len(keyword) :
            LowerChar(Char(text, i + j - 1)) = LowerChar(Char(keyword, j))

\* the lists that have a keyword in the trimmed text
ListsIn(text) ==
    {n \in 1..Len(KeywordLists) :
        \E k \in 1..Len(KeywordLists[n].keywords) :
            ContainsAnyCase(Strip(text), KeywordLists[n].keywords[k])}

\* the text under the type column of the call's row
TypeCellText == StrOf(call.row[ColumnPosition(call.columns, call.transaction_type_col)])

\* C13: categorize_transaction returns, for every type-cell text, the kind of
\* the first list in the order purchase, sale, dividend, tax, deposit, fee
\* that has a keyword contained in the trimmed text in any case, and none
\* when no list has one; a text with keywords of one list only gives that
\* list's kind.
C13_CategoryByPriority ==
    /\ Called("categorize_transaction") =>
           ret.value \in {KeywordLists[n].kind : n \in 1..Len(KeywordLists)} \cup {None}
    /\ (/\ Called("categorize_transaction")
        /\ call.transaction_type_col # None
        /\ ColumnPosition(call.columns, call.transaction_type_col) # 0) =>
        /\ ListsIn(TypeCellText) = {} => ret.value = None
        /\ ListsIn(TypeCellText) # {} =>
              ret.value = KeywordLists[Min(ListsIn(TypeCellText))].kind
        /\ \A n \in 1..Len(KeywordLists) :
              ListsIn(TypeCellText) = {n} => ret.value = KeywordLists[n].kind

\* a returned call on a text that has a tax keyword before a purchase keyword
\* and gives purchase, the list of higher priority
C13_Witness ==
    /\ Called("categorize_transaction")
    /\ call.row[2] = "TaxBuy"
    /\ ListsIn(call.row[2]) = {1, 4}
    /\ ret.value = "purchase"

\* the cell at the 0-based position p of the call's row: none when the
\* position is beyond the table width or the cell is empty
CellAt(p) ==
    IF p >= Len(call.columns) THEN None
    ELSE IF call.row[p + 1] = NaN THEN None
    ELSE call.row[p + 1]

\* the same table under other column labels
Relabelled(columns) ==
    IF columns = SubSeq(ExportLabels, 1, Len(columns))
    THEN SubSeq(LetterLabels, 1, Len(columns))
    ELSE SubSeq(ExportLabels, 1, Len(columns))

RowsOfType(file, type) == Cardinality({i \in 1..Len(file.rows) : file.rows[i][2] = type})

\* C16: a job over a file of the six columns Date, Transaction Type, Symbol,
\* Quantity, Price, Currency gives one Purchase and no Sale for every row of
\* type "Buy" with six filled cells, and one Sale and no Purchase for every
\* row of type "Sell" with six filled cells.
C16_SixColumnsBuySell ==
    Called("parse_job") =>
        /\ Len(ret.value.purchases) = RowsOfType(call.files[1], "Buy")
        /\ Len(ret.value.sales) = RowsOfType(call.files[1], "Sell")

\* the call is one of the transforms of a Dividend, a Tax or a Transfer
AmountCalled ==
    \/ Called("transform_to_dividend")
    \/ Called("transform_to_tax")
    \/ Called("transform_to_transfer")

\* C17: the amount of a Dividend, Tax or Transfer is the number parsed at
\* position 9; that of position 10 only when position 9 is absent or does not
\* parse; that of position 5 only when both are; and there is no record
\* exactly when none of the three gives a number or the date is absent.
C17_AmountFallback ==
    AmountCalled =>
        /\ ret.value = NoTransaction <=>
              \/ parse_date(CellAt(0)) = None
              \/ \A p \in {9, 10, 5} : parse_float(CellAt(p)) = None
        /\ ret.value # NoTransaction =>
              /\ parse_float(CellAt(9)) # None =>
                    ret.value.amount = parse_float(CellAt(9))
              /\ (parse_float(CellAt(9)) = None /\ parse_float(CellAt(10)) # None) =>
                    ret.value.amount = parse_float(CellAt(10))
              /\ (parse_float(CellAt(9)) = None /\ parse_float(CellAt(10)) = None) =>
                    ret.value.amount = parse_float(CellAt(5))

\* a returned call on a row whose cell at position 9 is no number and whose
\* cells at positions 10 and 5 are numbers: the amount is that of position 10
C17_Witness ==
    /\ Called("transform_to_tax")
    /\ Len(call.columns) = 11
    /\ call.row[10] = "abc"
    /\ call.row[11] = "10"
    /\ call.row[6] = "5.50"
    /\ ret.value # NoTransaction
    /\ ret.value.amount = "10.0"

\* the column at position i of the call's table has a label that is the
\* candidate spelling, exactly or but for the case of its letters
MatchesExactly(i, name) == call.columns[i].isstr /\ call.columns[i].text = name

MatchesAnyCase(i, name) ==
    /\ call.columns[i].isstr
    /\ Len(call.columns[i].text) = Len(name)
    /\ ContainsAnyCase(call.columns[i].text, name)

\* the positions of the columns that match some candidate
ExactColumns ==
    {i \in 1..Len(call.columns) :
        \E k \in 1..Len(possible_names) : MatchesExactly(i, possible_names[k])}

AnyCaseColumns ==
    {i \in 1..Len(call.columns) :
        \E k \in 1..Len(possible_names) : MatchesAnyCase(i, possible_names[k])}

\* the candidates, by their place in the list, that some column matches
ExactCandidates ==
    {k \in 1..Len(possible_names) :
        \E i \in 1..Len(call.columns) : MatchesExactly(i, possible_names[k])}

AnyCaseCandidates ==
    {k \in 1..Len(possible_names) :
        \E i \in 1..Len(call.columns) : MatchesAnyCase(i, possible_names[k])}

\* C18 as stated: find_transaction_type_column returns absent exactly when no
\* column label equals a candidate spelling, exactly or case-insensitively;
\* otherwise it returns the first column, in the table's order, that matches
\* any candidate, exact matches being looked for before case-insensitive
\* ones.
C18_FirstTableColumn ==
    Called("find_transaction_type_column") =>
        /\ ret.value = None <=> AnyCaseColumns = {}
        /\ ExactColumns # {} => ret.value = call.columns[Min(ExactColumns)].text
        /\ (ExactColumns = {} /\ AnyCaseColumns # {}) =>
              ret.value = call.columns[Min(AnyCaseColumns)].text

\* C18 amended: find_transaction_type_column goes through the candidates in
\* the order of the candidate list, not through the columns in the table's
\* order. It returns the first candidate that is the label of a column;
\* when there is none and some label is not a string it raises
\* AttributeError; otherwise it returns the first column, in the table's
\* order, whose label is, but for case, the first candidate that some label
\* is but for case; it returns absent exactly when no label is a candidate,
\* exactly or but for case, and every label is a string.
C18_FirstCandidate ==
    Called("find_transaction_type_column") =>
        /\ ExactCandidates # {} => ret.value = possible_names[Min(ExactCandidates)]
        /\ (ExactCandidates = {} /\ \E i \in 1..Len(call.columns) : ~call.columns[i].isstr) =>
              ret.value = AttributeError
        /\ (/\ ExactCandidates = {}
            /\ \A i \in 1..Len(call.columns) : call.columns[i].isstr
            /\ AnyCaseCandidates # {}) =>
              ret.value =
                  call.columns[
                      Min({i \in 1..Len(call.columns) :
                              MatchesAnyCase(i, possible_names[Min(AnyCaseCandidates)])})].text
        /\ ret.value = None <=>
              /\ AnyCaseColumns = {}
              /\ \A i \in 1..Len(call.columns) : call.columns[i].isstr

\* a returned call on a table whose first column is the second candidate and
\* whose second column is the first candidate: the second column is returned
C18_Witness ==
    /\ Called("find_transaction_type_column")
    /\ Len(call.columns) = 2
    /\ MatchesExactly(1, possible_names[2])
    /\ MatchesExactly(2, possible_names[1])
    /\ ret.value = call.columns[2].text

\* the position of the column after the type column of the call
NextPosition == ColumnPosition(call.columns, call.transaction_type_col) + 1

\* that column exists and its cell is present and not blank
NextCellUsable ==
    /\ NextPosition <= Len(call.columns)
    /\ NotNa(call.row[NextPosition])
    /\ Strip(call.row[NextPosition]) # ""

\* the candidate symbol columns, by their place in the list, that are in the
\* table with a cell that is present
SymbolCandidates ==
    {k \in 1..Len(possible_symbol_cols) :
        /\ ColumnPosition(call.columns, possible_symbol_cols[k]) # 0
        /\ NotNa(call.row[ColumnPosition(call.columns, possible_symbol_cols[k])])}

\* C19: get_company_symbol_for_dividend returns the value of the column after
\* the type column when it is present and not blank; when that column does
\* not exist or its value is missing, empty or whitespace only, it returns
\* the value of the first candidate symbol column of the fixed list that is
\* present with a value, and absent when there is none.
C19_SymbolNextThenCandidates ==
    Called("get_company_symbol_for_dividend") =>
        /\ NextCellUsable => ret.value = Strip(call.row[NextPosition])
        /\ (~NextCellUsable /\ SymbolCandidates # {}) =>
              ret.value =
                  Strip(call.row[ColumnPosition(
                            call.columns, possible_symbol_cols[Min(SymbolCandidates)])])
        /\ (~NextCellUsable /\ SymbolCandidates = {}) => ret.value = None

\* YYYY-MM-DD of a year, a month and a day
IsoDate(y, m, d) == IntToStr(y) \o "-" \o Pad2(m) \o "-" \o Pad2(d)

\* the call's text is a calendar date both when its first field is the month
\* and when its first field is the day
BothReadingsValid ==
    /\ IsCalendarDate(DigitsToInt(call.year), DigitsToInt(call.first),
                      DigitsToInt(call.second))
    /\ IsCalendarDate(DigitsToInt(call.year), DigitsToInt(call.second),
                      DigitsToInt(call.first))

MonthFirstReading ==
    IsoDate(DigitsToInt(call.year), DigitsToInt(call.first), DigitsToInt(call.second))

DayFirstReading ==
    IsoDate(DigitsToInt(call.year), DigitsToInt(call.second), DigitsToInt(call.first))

\* C20 as stated: for every date text, slash- or dash-separated, that is a
\* calendar date under the month-first and under the day-first reading of its
\* first two fields, parse_date returns the month-first reading.
C20_MonthFirstWins ==
    (Called("parse_date") /\ BothReadingsValid) => ret.value = MonthFirstReading

\* C20 amended: for such a text parse_date returns the reading of the first
\* format of its list that parses: the month-first reading when the fields
\* are slash-separated (%m/%d/%Y is before %d/%m/%Y) and the day-first
\* reading when they are dash-separated (%d-%m-%Y is before %m-%d-%Y).
C20_ListOrderWins ==
    (Called("parse_date") /\ BothReadingsValid) =>
        /\ call.sep = "/" => ret.value = MonthFirstReading
        /\ call.sep = "-" => ret.value = DayFirstReading

\* a returned call on a dash-separated text whose two readings are different
\* dates: the day-first one is returned
C20_Witness ==
    /\ Called("parse_date")
    /\ call.sep = "-"
    /\ BothReadingsValid
    /\ MonthFirstReading # DayFirstReading
    /\ ret.value = DayFirstReading
    /\ ret.value = "2023-02-01"

\* C22: every parse_job invocation starts from five empty accumulations and
\* an empty diagnostic list: the result of an invocation on a parser that has
\* run a job before holds the records and the diagnostics of the files of
\* this invocation only, as the result of a new parser on the same files.
C22_JobScopedState ==
    Called("parse_job again") =>
        /\ SameRecords(ret.value, RunFiles(NewParser, call.files))
        /\ ret.value.errors = RunFiles(NewParser, call.files).errors

-----------------------------------------------------------------------------
(* Properties of the accumulations *)

\* the records the rows of the file give for the accumulation field k, in
\* row order
RecordsOfRows(file, k, n) ==
    [j \in 1..Cardinality({i \in 1..n : RowKept(file, i) /\ FieldOfKind(KindOfRow(file, i)) = k})
        |-> TransformOfRow(
                file,
                CHOOSE i \in 1..n :
                    /\ RowKept(file, i) /\ FieldOfKind(KindOfRow(file, i)) = k
                    /\ Cardinality({h \in 1..i : RowKept(file, h)
                                        /\ FieldOfKind(KindOfRow(file, h)) = k}) = j)]

\* the same for every file and field, computed once; a file that fails gives
\* no record
ProducedMemo ==
    [f \in FileUniverse |->
        [k \in KindFields |->
            IF FileFails(f) THEN <<>> ELSE RecordsOfRows(f, k, Len(f.rows))]]

\* the records of field k of the first n files of fs, in (position of the
\* file, position of the row) order
RECURSIVE ProducedSoFar(_, _, _)
ProducedSoFar(fs, n, k) ==
    IF n = 0 THEN <<>>
    ELSE ProducedSoFar(fs, n - 1, k) \o ProducedMemo[fs[n]][k]

\* C23: after any sequence of processed files each accumulation is the
\* stable sort by date of all records of its kind produced so far, taken in
\* (position of the file in the job, position of the row in the file) order.
C23_StableSortOfAll ==
    pc \in {"files", "done"} =>
        /\ purchases = SortByDate(ProducedSoFar(files, idx - 1, "purchases"))
        /\ sales = SortByDate(ProducedSoFar(files, idx - 1, "sales"))
        /\ dividends = SortByDate(ProducedSoFar(files, idx - 1, "dividends"))
        /\ taxes = SortByDate(ProducedSoFar(files, idx - 1, "taxes"))
        /\ transfers = SortByDate(ProducedSoFar(files, idx - 1, "transfers"))


-----------------------------------------------------------------------------
(* Properties of the job as a state machine *)

\* the control of parse_job moves on: the call is made, the loop goes to its
\* next file or is left by an exception, or the call returns
Advance ==
    /\ pc \in {"init", "files"}
    /\ pc' \in {"files", "raised", "done"}
    /\ idx' \in {idx, idx + 1}
    /\ <<pc', idx'>> # <<pc, idx>>

\* parse_job is one synchronous call on one thread: while the call or its loop
\* has a step to take, that step is taken
SpecLive == Spec /\ WF_<<pc, idx>>(Advance)

\* under SpecLive the call always ends, by return or by exception
JobEnds == (pc = "files") ~> (pc \in {"done", "raised"})

\* the files before position idx have been processed, in list order and once
\* each, and their buckets are merged whole
ProcessedInOrder ==
    pc \in {"files", "done"} =>
        /\ idx \in 1..(Len(files) + 1)
        /\ SameRecords(Self, RunFiles(NewParser, SubSeq(files, 1, idx - 1)))
        /\ errors = RunFiles(NewParser, SubSeq(files, 1, idx - 1)).errors

\* the loop moves by one file at a time and nothing moves after Done
StepsByOne ==
    /\ idx' \in {idx, idx + 1}
    /\ pc = "done" => UNCHANGED parserVars

\* C24: a job is a sequential state machine Init, ProcessingFiles(index),
\* Done: the files are processed in list order and once each, the buckets of
\* a file are merged into the accumulations before the next file is loaded,
\* every files list takes the job to Done, and after Done no file is
\* processed and the accumulations do not change.
C24_RunsToDone ==
    /\ []ProcessedInOrder
    /\ [][StepsByOne]_vars
    /\ (pc = "files") ~> (pc = "done")

\* the part of C24 about order and completeness of the steps
C24_SafetyPart == []ProcessedInOrder /\ [][StepsByOne]_vars

-----------------------------------------------------------------------------
(* Properties of the kinds *)

\* the dataclass of the records of an accumulation
ClassOfField(k) ==
    CASE k = "purchases" -> "Purchase"
      [] k = "sales" -> "Sale"
      [] k = "dividends" -> "Dividend"
      [] k = "taxes" -> "Tax"
      [] OTHER -> "Transfer"

\* the record r of a row of category kind is in the accumulation of its kind
\* and in no other, and a Transfer has the kind of its row
InItsOwn(self, r, kind) ==
    /\ r \in Range(self[FieldOfKind(kind)])
    /\ \A k \in KindFields \ {FieldOfKind(kind)} : r \notin Range(self[k])
    /\ kind = "deposit" => r.type = "deposit"
    /\ kind = "fee" => r.type = "cash_handling_fee"

\* every record of the file's kept rows is in its own accumulation
FileInItsOwn(self, file) ==
    \A i \in 1..Len(file.rows) :
        RowKept(file, i) => InItsOwn(self, TransformOfRow(file, i), KindOfRow(file, i))

\* the accumulations hold objects of their own class only, as many as the
\* rows of their kind gave, and every record of the files processed so far
\* is in its own accumulation
KindsApart ==
    pc \in {"files", "done"} =>
        /\ \A k \in KindFields :
              /\ \A r \in Range(Self[k]) : r.class = ClassOfField(k)
              /\ Len(Self[k]) = Len(ProducedSoFar(files, idx - 1, k))
        /\ \A n \in 1..(idx - 1) :
              FileWorks(files[n]) => FileInItsOwn(Self, files[n])

\* a step that merges the buckets of a file merges each bucket into the
\* accumulation of the same kind
MergesSameKind ==
    (pc = "files" /\ idx' = idx + 1 /\ FileWorks(files[idx])) =>
        /\ purchases' = merge_transactions(
                            purchases, SortByDate(BucketsOf(files[idx]).file_purchases))
        /\ sales' = merge_transactions(sales, SortByDate(BucketsOf(files[idx]).file_sales))
        /\ dividends' = merge_transactions(
                            dividends, SortByDate(BucketsOf(files[idx]).file_dividends))
        /\ taxes' = merge_transactions(taxes, SortByDate(BucketsOf(files[idx]).file_taxes))
        /\ transfers' = merge_transactions(
                            transfers, SortByDate(BucketsOf(files[idx]).file_transfers))

\* C25: the five accumulations never mix record kinds: after any sequence of
\* files a record of a row categorized purchase, sale, dividend or tax is
\* only in purchases, sales, dividends or taxes, a record of a row categorized
\* deposit or fee is only in transfers, with type deposit or
\* cash_handling_fee, and every merge combines an accumulation with the
\* bucket of the same kind.
C25_KindsNeverMix == []KindsApart /\ [][MergesSameKind]_vars

\* a finished job with a purchase, a sale, a fee and a deposit in its result
C25_Witness ==
    /\ pc = "done"
    /\ result.purchases # <<>>
    /\ result.sales # <<>>
    /\ \E t \in Range(result.transfers) : t.type = "deposit"
    /\ \E t \in Range(result.transfers) : t.type = "cash_handling_fee"

-----------------------------------------------------------------------------
(* Properties of the merges of a job *)

\* the dates of the records of s
DatesOf(s) == [i \in 1..Len(s) |-> get_transaction_date(s[i])]

\* the return statement merge_transactions leaves by on ex and nw
MergePath(ex, nw, eb, nb) ==
    IF nw = <<>> THEN "existing"
    ELSE IF ex = <<>> THEN "new"
    ELSE IF eb[1] = None \/ eb[2] = None \/ nb[1] = None \/ nb[2] = None THEN "simple"
    ELSE IF compare_dates(nb[2], eb[1]) < 0 THEN "prepend"
    ELSE IF compare_dates(nb[1], eb[2]) > 0 THEN "append"
    ELSE "sorted"

PathOf(ex, nw) ==
    MergePath(ex, nw, get_date_boundaries(DatesOf(ex)), get_date_boundaries(DatesOf(nw)))

\* the sorted bucket of the file that is merged into the accumulation field k
SortedBucket(file, k) == SortByDate(BucketsOf(file)["file_" \o k])

\* the next step of the loop merges the buckets of files[idx]
AboutToMerge ==
    /\ pc = "files"
    /\ idx <= Len(files)
    /\ FileWorks(files[idx])
    /\ find_transaction_type_column(files[idx].columns) # AttributeError

\* C26: within a job the indeterminate-boundary fallback of the merger is
\* never taken: every record the orchestrator hands to merge_transactions has
\* a date, so when both sequences are non-empty the four boundaries are
\* determined and _simple_merge is not reached.
C26_NoSimpleMerge ==
    AboutToMerge =>
        \A k \in KindFields :
            /\ \A r \in Range(Self[k]) \cup Range(SortedBucket(files[idx], k)) :
                  get_transaction_date(r) # None
            /\ PathOf(Self[k], SortedBucket(files[idx], k)) # "simple"
            /\ (Self[k] # <<>> /\ SortedBucket(files[idx], k) # <<>>) =>
                  /\ None \notin Range(get_date_boundaries(DatesOf(Self[k])))
                  /\ None \notin Range(get_date_boundaries(
                                           DatesOf(SortedBucket(files[idx], k))))

\* a second file whose purchases are about to be merged into purchases of the
\* first, by the two-pointer merge; the file has a tax row without a date,
\* which is in no bucket
C26_Witness ==
    /\ AboutToMerge
    /\ idx = 2
    /\ purchases # <<>>
    /\ SortedBucket(files[idx], "purchases") # <<>>
    /\ PathOf(purchases, SortedBucket(files[idx], "purchases")) = "sorted"
    /\ \E i \in 1..Len(files[idx].rows) :
          /\ KindOfRow(files[idx], i) = "tax"
          /\ parse_date(get_cell_value(files[idx].rows[i], files[idx].columns, 0, None)) = None
          /\ parse_float(get_cell_value(files[idx].rows[i], files[idx].columns, 5, None)) # None
    /\ SortedBucket(files[idx], "taxes") = <<>>

-----------------------------------------------------------------------------
(* Properties of the boundary-skip optimization *)

\* every date of s is a YYYY-MM-DD text that names a calendar day
WellFormedDates(s) ==
    \A i \in 1..Len(s) : Strptime(get_transaction_date(s[i])) # None

\* a batch merge_transactions is specified for
SortedWellFormed(s) == SortedByDate(s) /\ WellFormedDates(s)

\* C27: the boundary-skip optimization does not change the result: for
\* date-sorted sequences with well-formed dates merge_transactions, with its
\* empty-input shortcuts and its prepend and append paths, returns the
\* sequence _sorted_merge returns on the same two inputs.
C27_SkipIsSortedMerge ==
    /\ (mpc # "args" /\ SortedWellFormed(existing) /\ SortedWellFormed(new)) =>
           merged = _sorted_merge(existing, new)
    /\ (mpc \in {"left", "done"} /\ SortedWellFormed(merged) /\ SortedWellFormed(third)) =>
           left = _sorted_merge(merged, third)

\* a merge of full batches that prepends, then a merge whose new batch starts
\* on the latest date of the existing one and goes through the two-pointer
\* loop: the results are those of _sorted_merge
C27_Witness ==
    /\ mpc = "left"
    /\ Len(existing) = MaxLen /\ Len(new) = MaxLen /\ third # <<>>
    /\ SortedWellFormed(existing) /\ SortedWellFormed(new) /\ SortedWellFormed(third)
    /\ PathOf(existing, new) = "prepend"
    /\ PathOf(merged, third) = "sorted"
    /\ get_transaction_date(third[1]) = get_transaction_date(merged[Len(merged)])
    /\ merged = new \o existing
    /\ left = new \o existing \o third

-----------------------------------------------------------------------------
(* Properties of the two date orders *)

\* C28: the two date orders of the pipeline agree on every date a record can
\* carry: for all texts a, b that parse_date can return, compare_dates(a, b)
\* is negative exactly when a is before b in the order of the texts (the
\* order of the per-file sort and of get_date_boundaries) and is 0 exactly
\* when a = b.
C28_OrdersAgree ==
    Called("compare_dates") =>
        /\ ret.value < 0 <=> StrLess(call.date1, call.date2)
        /\ ret.value = 0 <=> call.date1 = call.date2

\* the same for the dates that name a calendar day
C28_OrdersAgreeOnCalendarDays ==
    (/\ Called("compare_dates")
     /\ Strptime(call.date1) # None
     /\ Strptime(call.date2) # None) =>
        /\ ret.value < 0 <=> StrLess(call.date1, call.date2)
        /\ ret.value = 0 <=> call.date1 = call.date2

-----------------------------------------------------------------------------
(* Properties of the worker *)

\* the message of the entry at position p, as process_message is given it
MessageAt(p) == parse_message(stream[p])

\* the job descriptor lacks its directory, or its files are missing, empty or
\* not a list
Malformed(message) ==
    \/ Get(message, "directory", "") = ""
    \/ "files" \notin DOMAIN message
    \/ Falsy(message.files)
    \/ message.files.type # "list"

\* the worker has added an entry for the job of the entry at p whose step and
\* status are these
Added(p, step, status) ==
    \E q \in written :
        /\ stream[q].jobId = Get(MessageAt(p), "jobId", "unknown")
        /\ stream[q].step = step
        /\ stream[q].status = status

\* the worker has added an error message for the job of the entry at p
ErrorReported(p) ==
    \E q \in written :
        /\ stream[q].jobId = Get(MessageAt(p), "jobId", "unknown")
        /\ stream[q].status = "error"
        /\ "error" \in DOMAIN stream[q]

\* C21: when a consumed job message is malformed (no directory, or files
\* missing, empty or not a list) the worker reports it on the stream as an
\* error message with jobId, status error and an error text, and does not
\* invoke the parser for it.
C21_MalformedReported ==
    \A p \in processed \ written :
        Malformed(MessageAt(p)) => (p \notin parsed /\ ErrorReported(p))

\* the part of C21 that holds: the parser is not invoked on a malformed
\* message
C21_MalformedNotParsed ==
    \A p \in processed : Malformed(MessageAt(p)) => p \notin parsed

\* C29: a job message is acknowledged only after a result message for its
\* jobId has been added to the stream: no message is acknowledged whose
\* result publication failed or did not happen; skipped and malformed
\* messages and those whose parsing raised are not acknowledged.
C29_AckAfterResult ==
    \A p \in acked :
        /\ should_process_message(MessageAt(p))
        /\ process_message(MessageAt(p)) = "parsed"
        /\ p \notin lost
        /\ Added(p, "parsing_complete", "done")

\* the part of C29 that holds: only messages whose parsing returned are
\* acknowledged
C29_AckOnlyParsed ==
    \A p \in acked :
        /\ should_process_message(MessageAt(p))
        /\ process_message(MessageAt(p)) = "parsed"
        /\ p \in parsed

\* C30: the worker never takes a message it published itself to process:
\* every entry written by publish_result or publish_error is rejected by
\* should_process_message when it is read back, so process_message is never
\* called on the worker's own output.
C30_OwnOutputSkipped ==
    /\ \A q \in written : ~should_process_message(MessageAt(q))
    /\ processed \cap written = {}

\* the part of C30 that holds: a result message is never processed
C30_ResultSkipped ==
    \A q \in written :
        stream[q].step = "parsing_complete" =>
            (~should_process_message(MessageAt(q)) /\ q \notin processed)

=============================================================================
